---- MODULE Spec2Model ----
(***************************************************************************)
(* GitHubPodcastGenerator (src/github_podcast_generator.py) and the        *)
(* Streamlit flow that drives it (src/app.py).                             *)
(*                                                                         *)
(* Texts are abstracted to what the code reads of them: a file content to  *)
(* its number of characters, the README to its length, H1 title and first  *)
(* paragraph.  The script is a sequence of symbols: each bracket, star,    *)
(* hash, dash, punctuation mark and line break is a symbol of its own, a   *)
(* run of blanks is one symbol and so is any other run of characters.      *)
(***************************************************************************)
EXTENDS Integers, Sequences, FiniteSets, TLC

VARIABLES
    gemini_api_key,              \* TRUE iff a key is configured (line 46)
    repo_owner, repo_name, repo_url, branch,
    code_files,                  \* sequence of [extension, content]
    readme_content,              \* [chars, title, description]
    repo_summary,                \* a record; <<>> is the empty dict
    complexity_level,
    total_code_chars_collected,
    pc,                          \* position of the caller (src/app.py)
    ret,                         \* what the last call returned
    log_prefix,                  \* the prompt generate_podcast_script chose
    podcast_script,              \* the script it returned, a text
    script_source,               \* "model", "stub", "raised" for an exception,
                                 \* "given" for a script of the caller
    vignette_load,               \* how the loading of the vignette went
    vignette,                    \* TRUE iff vignette is set
    vignette_ms,                 \* len(vignette) in milliseconds, 0 when not set
    parts,                       \* the parts of the script
    processed_parts,             \* how many of them the loop has taken
    final_segments,              \* the clips appended so far
    clip_parts,                  \* for each clip, the index of its part
    clip_ms,                     \* for each clip, its duration in milliseconds
    tts_requests,                \* the texts sent to speech synthesis so far
    tts_outcomes,                \* for each of them, how synthesis went
    combined_audio,              \* the track exported, a sequence of stretches
    podcast_audio_bytes,         \* what generate_podcast_audio returned
    progress,                    \* the fractions passed to the progress callback
    collection_errors,           \* the requests to GitHub that failed in this run
    blob_items,                  \* fetch_repo_structure: the blobs of the tree it reads
    blobs_processed_for_content, \* how many of them its loop has taken
    files_content_read_count     \* how many contents it has stored

gen_vars == <<gemini_api_key, repo_owner, repo_name, repo_url, branch, code_files,
              readme_content, repo_summary, complexity_level,
              total_code_chars_collected>>
script_vars == <<log_prefix, podcast_script, script_source>>
audio_vars == <<vignette_load, vignette, vignette_ms, parts, processed_parts, final_segments,
                clip_parts, clip_ms, tts_requests, tts_outcomes, combined_audio,
                podcast_audio_bytes>>
fetch_locals == <<blob_items, blobs_processed_for_content, files_content_read_count>>
vars == <<gen_vars, pc, ret, script_vars, audio_vars, progress, collection_errors,
          fetch_locals>>

----------------------------------------------------------------------------
\* Bounds of the model.

\* Decoded file sizes explored above each threshold of the classifier.
MaxDelta == 1
\* Largest number of distinct languages in an explored repository.
MaxLangs == 5

\* Program constants.
max_files_to_read_content == 1500
max_chars_per_file_read == 150000

\* Python's None where the model keeps a number or a name.
None == -1
NoName == "None"

Min(a, b) == IF a < b THEN a ELSE b
Max(a, b) == IF a > b THEN a ELSE b

----------------------------------------------------------------------------
\* Exact arithmetic for the score.  A natural number is kept as its
\* little-endian sequence of base-1000 digits, without leading zeros.

Base == 1000

RECURSIVE BigOfNat(_)
BigOfNat(n) == IF n = 0 THEN <<>> ELSE <<n % Base>> \o BigOfNat(n \div Base)

\* x * m + carry, for m small enough that Base * m stays below 2^31.
RECURSIVE BigMulAdd(_, _, _)
BigMulAdd(x, m, carry) ==
    IF x = <<>> THEN BigOfNat(carry)
    ELSE LET t == Head(x) * m + carry
         IN  <<t % Base>> \o BigMulAdd(Tail(x), m, t \div Base)

RECURSIVE BigTrim(_)
BigTrim(x) ==
    IF x = <<>> THEN x
    ELSE IF x[Len(x)] = 0 THEN BigTrim(SubSeq(x, 1, Len(x) - 1)) ELSE x

BigMul(x, m) == BigTrim(BigMulAdd(x, m, 0))

RECURSIVE BigMulPow(_, _, _)
BigMulPow(x, m, k) == IF k = 0 THEN x ELSE BigMulPow(BigMul(x, m), m, k - 1)

\* x * 10^k: k \div 3 whole digits of zero below x * 10^(k % 3).
BigShift(x, k) ==
    LET y == BigMul(x, IF k % 3 = 0 THEN 1 ELSE IF k % 3 = 1 THEN 10 ELSE 100)
    IN  IF y = <<>> THEN y ELSE [i \in 1..(k \div 3) |-> 0] \o y

\* Compare from the most significant digit down.
RECURSIVE BigLessFrom(_, _, _)
BigLessFrom(x, y, i) ==
    IF i = 0 THEN FALSE
    ELSE IF x[i] # y[i] THEN x[i] < y[i]
    ELSE BigLessFrom(x, y, i - 1)

BigLess(x, y) ==
    IF Len(x) # Len(y) THEN Len(x) < Len(y) ELSE BigLessFrom(x, y, Len(x))

BigLeq(x, y) == ~BigLess(y, x)

----------------------------------------------------------------------------
\* Repositories: what the GitHub API answers.

\* The extensions of self.code_extensions (line 82), without the dot.
code_extensions ==
    <<"py", "js", "html", "css", "java", "cpp", "c", "h", "go", "rb", "php", "ts",
      "jsx", "tsx", "ipynb", "sh", "md", "yaml", "yml", "json", "xml", "sql",
      "dockerfile">>

InCodeExtensions(ext) == \E i \in 1..Len(code_extensions) : code_extensions[i] = ext

\* A README as the code reads it: its length, its H1 title (NoTitle when the
\* pattern of line 356 finds none) and the first paragraph found by line 366.
NoTitle == <<"None">>
EmptyReadme == [chars |-> 0, title |-> NoTitle, description |-> <<>>]

Readme(n, d) == [chars |-> n, title |-> NoTitle, description |-> d]

\* A blob of the tree: kind is "readme" (file name readme.md), "code" (extension
\* in code_extensions) or "other"; chars is the decoded length the blob request
\* answers, None when the request or the decoding fails.
CodeItem(ext, n) == [kind |-> "code", extension |-> ext, chars |-> n, readme |-> EmptyReadme]
ReadmeItem(r) == [kind |-> "readme", extension |-> "md", chars |-> r.chars, readme |-> r]
OtherItem == [kind |-> "other", extension |-> "png", chars |-> None, readme |-> EmptyReadme]

\* The repository with `a` code files of `sz` decoded characters each, `b` more
\* whose content cannot be read, `l` languages among them, and README r.
Tree(a, sz, b, l, r) ==
    (IF r.chars > 0 THEN <<ReadmeItem(r)>> ELSE <<>>)
    \o [i \in 1..(a + b) |->
          CodeItem(code_extensions[((i - 1) % l) + 1], IF i <= a THEN sz ELSE None)]
    \o <<OtherItem>>

----------------------------------------------------------------------------
\* The content of a blob kept whole, whatever its length.
_fetch_file_content_by_sha_untruncated(item) == item.chars

\* _fetch_file_content_by_sha: the content kept of a blob, as its length.
\* None for a failed request or decoding, 0 for an empty blob.
_fetch_file_content_by_sha(item) ==
    IF item.chars = None THEN None
    ELSE Min(item.chars, max_chars_per_file_read)

\* The loop of fetch_repo_structure over the blobs, from item i on; st holds
\* code_files, readme_content, total_code_chars_collected and
\* files_content_read_count.
RECURSIVE FetchLoop(_, _, _)
FetchLoop(items, i, st) ==
    IF i > Len(items) THEN st
    ELSE LET item == items[i]
             content == _fetch_file_content_by_sha(item)
             next ==
               IF item.kind = "readme"
               THEN IF content # None /\ content > 0
                    THEN [st EXCEPT !.readme_content = [item.readme EXCEPT !.chars = content]]
                    ELSE st
               ELSE IF item.kind = "code" /\ InCodeExtensions(item.extension)
               THEN IF st.files_content_read_count < max_files_to_read_content
                       /\ content # None /\ content > 0
                    THEN [st EXCEPT
                            !.code_files =
                                Append(@, [extension |-> item.extension, content |-> content]),
                            !.total_code_chars_collected = @ + content,
                            !.files_content_read_count = @ + 1]
                    ELSE [st EXCEPT
                            !.code_files =
                                Append(@, [extension |-> item.extension, content |-> None])]
               ELSE st
         IN  FetchLoop(items, i + 1, next)

FetchStart ==
    [code_files |-> <<>>, readme_content |-> EmptyReadme,
     total_code_chars_collected |-> 0, files_content_read_count |-> 0]

----------------------------------------------------------------------------
\* The complexity score (lines 495-520), kept exactly.  The code adds
\* logarithms; the model keeps s = [m, e] with 10^(2*score) = m * 10^e, so a
\* term 2.5*log10(c/1000) multiplies m by c^5 and lowers e by 15, and a bonus
\* of 0.5 raises e by one.

ScoreZero == [m |-> <<1>>, e |-> 0]

\* 10^(2*v) for a whole number v of half points.
ScoreOfHalves(h) == [m |-> <<1>>, e |-> h]

ScoreLess(s, t) ==
    LET d == Min(s.e, t.e)
    IN  BigLess(BigShift(s.m, s.e - d), BigShift(t.m, t.e - d))

ScoreLeq(s, t) == ~ScoreLess(t, s)
ScoreEq(s, t) == ~ScoreLess(s, t) /\ ~ScoreLess(t, s)

\* s plus h half points.
ScorePlusHalves(s, h) == [s EXCEPT !.e = @ + h]

\* if code_chars > 1000: score += math.log10(code_chars / 1000) * 2.5
CodeCharsTerm(s, code_chars) ==
    IF code_chars > 1000
    THEN [m |-> BigMulPow(s.m, code_chars, 5), e |-> s.e - 15]
    ELSE s

FilesTerm_wrong_divisor(s, num_files) ==
    IF num_files > 10
    THEN [m |-> BigMulPow(s.m, num_files, 3), e |-> s.e - 6]
    ELSE s

\* if num_files > 10: score += math.log10(num_files / 10) * 1.5
FilesTerm(s, num_files) ==
    IF num_files > 10
    THEN [m |-> BigMulPow(s.m, num_files, 3), e |-> s.e - 3]
    ELSE s

\* score += max(0, num_langs - 1) * 0.5
LangsTerm(s, num_langs) == ScorePlusHalves(s, Max(0, num_langs - 1))

ReadmeTerm_double_penalty(s, readme_len, code_chars) ==
    IF readme_len < 200 /\ code_chars > 10000 THEN ScorePlusHalves(s, -2)
    ELSE IF readme_len > 5000 THEN ScorePlusHalves(s, 1)
    ELSE s

\* The README penalty and bonus of lines 517-520.
ReadmeTerm(s, readme_len, code_chars) ==
    IF readme_len < 200 /\ code_chars > 10000 THEN ScorePlusHalves(s, -1)
    ELSE IF readme_len > 5000 THEN ScorePlusHalves(s, 1)
    ELSE s

\* len(self.repo_summary.get("languages", {}))
NumLangs(self) ==
    IF "languages" \in DOMAIN self.repo_summary THEN Len(self.repo_summary.languages) ELSE 0

\* The score _assess_repository_complexity computes from the generator self.
ComplexityScore(self) ==
    LET num_files == Len(self.code_files)
        num_langs == NumLangs(self)
        readme_len == self.readme_content.chars
        code_chars == self.total_code_chars_collected
    IN  ReadmeTerm(
            LangsTerm(FilesTerm(CodeCharsTerm(ScoreZero, code_chars), num_files), num_langs),
            readme_len, code_chars)

ClassifyScore_inclusive(score) ==
    IF ScoreLeq(score, ScoreOfHalves(8)) THEN "simple"
    ELSE IF ScoreLeq(ScoreOfHalves(18), score) THEN "complex"
    ELSE "medium"

\* Lines 528-533: score < 4.0, score > 9.0, otherwise medium.
ClassifyScore(score) ==
    IF ScoreLess(score, ScoreOfHalves(8)) THEN "simple"
    ELSE IF ScoreLess(ScoreOfHalves(18), score) THEN "complex"
    ELSE "medium"

_assess_repository_complexity_sticky(self) ==
    IF self.complexity_level # "medium" THEN self.complexity_level
    ELSE ClassifyScore(ComplexityScore(self))

\* The level _assess_repository_complexity stores in self.complexity_level.
_assess_repository_complexity(self) == ClassifyScore(ComplexityScore(self))

----------------------------------------------------------------------------
\* Texts.  A text is the sequence of its symbols: each of the characters
\*   [ ] ( ) * # - + : . , ! ?  the backtick and the line break
\* is a symbol of its own, a run of blanks is one symbol, and a run of other
\* characters is one symbol.

Blanks == {" ", "        ", "            "}

\* \s
IsSpace(t) == t \in Blanks \cup {"\n"}

\* The positions of s from position from on.
Indices(s, from) == [k \in 1..(Len(s) - from + 1) |-> from + k - 1]

\* The symbols of s at the positions Keep accepts.
Pick(s, Keep(_)) ==
    LET kept == SelectSeq(Indices(s, 1), Keep)
    IN  SubSeq([k \in 1..Len(kept) |-> s[kept[k]]], 1, Len(kept))

\* The first position of s from position from on that Test accepts, 0 if there is none.
First(s, from, Test(_)) ==
    LET hits == SelectSeq(Indices(s, from), Test)
    IN  IF hits = <<>> THEN 0 ELSE hits[1]

\* The last position of s that Test accepts, 0 if there is none.
Last(s, Test(_)) ==
    LET hits == SelectSeq(Indices(s, 1), Test)
    IN  IF hits = <<>> THEN 0 ELSE hits[Len(hits)]

\* The end of a greedy run: the first position from position from on that Test
\* rejects, Len(s) + 1 if there is none.
RunEnd(s, from, Test(_)) ==
    LET stop == First(s, from, LAMBDA i : ~Test(s[i]))
    IN  IF stop = 0 THEN Max(from, Len(s) + 1) ELSE stop

\* The end of \s* from position from.
SpaceEnd(s, from) == RunEnd(s, from, IsSpace)

\* str.strip()
Strip(s) ==
    LET a == First(s, 1, LAMBDA i : ~IsSpace(s[i]))
        b == Last(s, LAMBDA i : ~IsSpace(s[i]))
    IN  IF a = 0 THEN <<>> ELSE SubSeq(s, a, b)

\* s contains the symbols of sub in a row.
Contains(s, sub) ==
    First(s, 1, LAMBDA i : i + Len(sub) - 1 <= Len(s)
                           /\ SubSeq(s, i, i + Len(sub) - 1) = sub) # 0

\* marker_pattern (\[.*?\]) at "[" in position i: the position of the first
\* "]" on the same line, 0 when there is none.
MarkerEnd(s, i) ==
    IF s[i] # "[" THEN 0
    ELSE LET stop == First(s, i + 1, LAMBDA j : s[j] \in {"]", "\n"})
         IN  IF stop # 0 /\ s[stop] = "]" THEN stop ELSE 0

\* re.split(marker_pattern, script_text) from position from: the texts
\* between the markers and the markers, in order.
RECURSIVE Split(_, _)
Split(s, from) ==
    LET i == First(s, from, LAMBDA k : MarkerEnd(s, k) # 0)
    IN  IF i = 0 THEN <<SubSeq(s, from, Len(s))>>
        ELSE <<SubSeq(s, from, i - 1), SubSeq(s, i, MarkerEnd(s, i))>>
             \o Split(s, MarkerEnd(s, i) + 1)

\* parts = [p.strip() for p in re.split(...) if p and p.strip()]
Parts(script_text) ==
    LET pieces == Split(script_text, 1)
        stripped == [k \in 1..Len(pieces) |-> Strip(pieces[k])]
    IN  SelectSeq(stripped, LAMBDA p : p # <<>>)

\* The markers of lines 893-902.
vignette_markers ==
    {<<"[", "VINHETA", " ", "DE", " ", "ABERTURA", "]">>,
     <<"[", "VINHETA", " ", "DE", " ", "TRANSIÇÃO", "]">>,
     <<"[", "VINHETA", " ", "DE", " ", "ENCERRAMENTO", "]">>}

markers_to_remove ==
    vignette_markers
    \cup {<<"[", "MÚSICA", " ", "SUAVE", " ", "DE", " ", "FUNDO", "]">>,
          <<"[", "SECTION", " ", "BREAK", "]">>}

\* re.sub(r'---\n.*', '', part, flags=re.DOTALL).strip()
CutFooter(s) ==
    LET i == First(s, 1, LAMBDA k : /\ k + 3 <= Len(s)
                                    /\ s[k] = "-" /\ s[k + 1] = "-" /\ s[k + 2] = "-"
                                    /\ s[k + 3] = "\n")
    IN  Strip(IF i = 0 THEN s ELSE SubSeq(s, 1, i - 1))

\* [line for line in s.splitlines() if line.strip()], from position from.
RECURSIVE NonBlankLines(_, _)
NonBlankLines(s, from) ==
    IF from > Len(s) THEN <<>>
    ELSE LET nl == First(s, from, LAMBDA i : s[i] = "\n")
             line == SubSeq(s, from, IF nl = 0 THEN Len(s) ELSE nl - 1)
         IN  (IF Strip(line) = <<>> THEN <<>> ELSE <<line>>)
             \o (IF nl = 0 THEN <<>> ELSE NonBlankLines(s, nl + 1))

\* "\n".join(lines)
RECURSIVE JoinLines(_)
JoinLines(lines) ==
    IF lines = <<>> THEN <<>>
    ELSE IF Len(lines) = 1 THEN lines[1]
    ELSE lines[1] \o <<"\n">> \o JoinLines(Tail(lines))

DropBlankLines(s) == JoinLines(NonBlankLines(s, 1))

\* ^ under re.MULTILINE
IsLineStart(s, p) == p = 1 \/ s[p - 1] = "\n"

\* For a pattern anchored by ^ under re.MULTILINE: at each position, the
\* position after the match that starts there, 0 when none does.
MatchesAtLineStarts(s, MatchEnd(_)) ==
    SubSeq([p \in 1..Len(s) |-> IF IsLineStart(s, p) THEN MatchEnd(p) ELSE 0], 1, Len(s))

\* re.sub(pattern, '', s) for the matches ends, from position from.
RECURSIVE RemoveMatches(_, _, _)
RemoveMatches(s, from, ends) ==
    LET p == First(s, from, LAMBDA k : ends[k] # 0)
    IN  IF p = 0 THEN SubSeq(s, from, Len(s))
        ELSE SubSeq(s, from, p - 1) \o RemoveMatches(s, ends[p], ends)

RemoveAtLineStarts(s, MatchEnd(_)) == RemoveMatches(s, 1, MatchesAtLineStarts(s, MatchEnd))

\* LOCUTOR and HOST under re.IGNORECASE, as the inputs write them.
SpeakerWords == {"LOCUTOR", "Locutor", "locutor", "HOST", "Host", "host"}

IsStar(t) == t = "*"

\* ^\s*(\*\*)*(LOCUTOR:|HOST:)(\*\*)*\s* at position p
SpeakerLabelEnd(s, p) ==
    LET a == SpaceEnd(s, p)
        w == RunEnd(s, a, IsStar)
        c == RunEnd(s, w + 2, IsStar)
    IN  IF /\ (w - a) % 2 = 0
           /\ w + 1 <= Len(s)
           /\ s[w] \in SpeakerWords
           /\ s[w + 1] = ":"
        THEN SpaceEnd(s, c - ((c - (w + 2)) % 2))
        ELSE 0

RemoveSpeakerLabels(s) ==
    RemoveAtLineStarts(s, LAMBDA p : SpeakerLabelEnd(s, p))

\* \*(\*?)(.*?)\1\* at "*" in position i: [from, to] is group 2 and next the
\* position after the match; next = 0 when position i does not match.
EmphasisAt(s, i) ==
    LET double == i + 1 <= Len(s) /\ s[i + 1] = "*"
        stop2 == First(s, i + 2, LAMBDA j :
                     \/ s[j] = "\n"
                     \/ s[j] = "*" /\ j + 1 <= Len(s) /\ s[j + 1] = "*")
        stop1 == First(s, i + 1, LAMBDA j : s[j] \in {"\n", "*"})
    IN  IF s[i] # "*" THEN [from |-> 0, to |-> 0, next |-> 0]
        ELSE IF double /\ stop2 # 0 /\ s[stop2] = "*"
        THEN [from |-> i + 2, to |-> stop2 - 1, next |-> stop2 + 2]
        ELSE IF stop1 # 0 /\ s[stop1] = "*"
        THEN [from |-> i + 1, to |-> stop1 - 1, next |-> stop1 + 1]
        ELSE [from |-> 0, to |-> 0, next |-> 0]

\* re.sub(r'\*(\*?)(.*?)\1\*', r'\2', s), from position from
RECURSIVE RemoveEmphasis(_, _)
RemoveEmphasis(s, from) ==
    LET i == First(s, from, LAMBDA k : EmphasisAt(s, k).next # 0)
        m == EmphasisAt(s, i)
    IN  IF i = 0 THEN SubSeq(s, from, Len(s))
        ELSE SubSeq(s, from, i - 1) \o SubSeq(s, m.from, m.to)
             \o RemoveEmphasis(s, m.next)

\* The symbol of the backtick (U+0060), which no string of the module can hold.
Backtick == "BACKTICK"

\* re.sub of line 951: every backtick removed
RemoveBackticks(s) == SelectSeq(s, LAMBDA t : t # Backtick)

IsHash(t) == t = "#"

\* ^\s*#+\s+ at position p
HeaderEnd(s, p) ==
    LET a == SpaceEnd(s, p)
        h == RunEnd(s, a, IsHash)
    IN  IF h > a /\ h <= Len(s) /\ IsSpace(s[h]) THEN SpaceEnd(s, h) ELSE 0

RemoveHeaders(s) == RemoveAtLineStarts(s, LAMBDA p : HeaderEnd(s, p))

\* ^\s*[-*+]\s+ at position p
ListMarkerEnd(s, p) ==
    LET a == SpaceEnd(s, p)
    IN  IF a + 1 <= Len(s) /\ s[a] \in {"-", "*", "+"} /\ IsSpace(s[a + 1])
        THEN SpaceEnd(s, a + 1)
        ELSE 0

RemoveListMarkers(s) == RemoveAtLineStarts(s, LAMBDA p : ListMarkerEnd(s, p))

\* \[(.*?)\]\(.*?\) at "[" in position i: [from, to] is group 1 and next the
\* position after the match; next = 0 when position i does not match.
LinkAt(s, i) ==
    LET eol == First(s, i, LAMBDA k : s[k] = "\n")
        end == IF eol = 0 THEN Len(s) + 1 ELSE eol
        Close(j) == First(s, j + 2, LAMBDA k : k < end /\ s[k] = ")")
        j == First(s, i + 1, LAMBDA k : /\ k + 1 < end
                                        /\ s[k] = "]" /\ s[k + 1] = "("
                                        /\ Close(k) # 0)
    IN  IF s[i] # "[" \/ j = 0 THEN [from |-> 0, to |-> 0, next |-> 0]
        ELSE [from |-> i + 1, to |-> j - 1, next |-> Close(j) + 1]

\* re.sub(r'\[(.*?)\]\(.*?\)', r'\1', s), from position from
RECURSIVE RemoveLinks(_, _)
RemoveLinks(s, from) ==
    LET i == First(s, from, LAMBDA k : LinkAt(s, k).next # 0)
        m == LinkAt(s, i)
    IN  IF i = 0 THEN SubSeq(s, from, Len(s))
        ELSE SubSeq(s, from, i - 1) \o SubSeq(s, m.from, m.to) \o RemoveLinks(s, m.next)

\* re.sub(r'\s+', ' ', s).strip()
CollapseSpaces(s) ==
    LET kept == SelectSeq(Indices(s, 1),
                          LAMBDA i : ~IsSpace(s[i]) \/ i = 1 \/ ~IsSpace(s[i - 1]))
    IN  Strip(SubSeq([k \in 1..Len(kept) |->
                        IF IsSpace(s[kept[k]]) THEN " " ELSE s[kept[k]]], 1, Len(kept)))

Punctuation == {"?", ".", "!", ",", ":"}

\* re.sub(r'\s([?.!,:])', r'\1', s)
FixPunctuation(s) ==
    Pick(s, LAMBDA i : ~(IsSpace(s[i]) /\ i < Len(s) /\ s[i + 1] \in Punctuation))

\* Lines 939-940: the text left of a part once the footer and the blank lines
\* are removed.
UsefulText(part) == DropBlankLines(CutFooter(part))

\* The cleaning of lines 947-962 without the removal of emphasis.
TextToSpeak_emphasis_kept(useful) ==
    FixPunctuation(CollapseSpaces(RemoveLinks(RemoveListMarkers(RemoveHeaders(
        RemoveBackticks(RemoveSpeakerLabels(useful)))), 1)))

\* Lines 947-962: the text sent to speech synthesis for the useful text of a part.
TextToSpeak(useful) ==
    FixPunctuation(CollapseSpaces(RemoveLinks(RemoveListMarkers(RemoveHeaders(
        RemoveBackticks(RemoveEmphasis(RemoveSpeakerLabels(useful), 1)))), 1)))

\* The text sent to speech synthesis whether or not anything is left of it.
SpeakStep_always(text_to_speak) == [do |-> "speak", text |-> text_to_speak]

\* Line 964: a text the cleaning left empty is not sent to speech synthesis.
SpeakStep(text_to_speak) ==
    IF text_to_speak = <<>> THEN [do |-> "skip", text |-> <<>>]
    ELSE [do |-> "speak", text |-> text_to_speak]

\* Lines 939-962: a part without useful text is skipped, another is cleaned.
CleanStep(useful) ==
    IF useful = <<>> THEN [do |-> "skip", text |-> <<>>]
    ELSE SpeakStep(TextToSpeak(useful))

\* The loop of lines 916-993 without the test of line 964 for an empty text.
PartStep_empty_text_spoken(part, loaded) ==
    IF part \in vignette_markers /\ loaded THEN [do |-> "vignette", text |-> <<>>]
    ELSE IF part \in markers_to_remove THEN [do |-> "skip", text |-> <<>>]
    ELSE IF part[1] = "[" /\ part[Len(part)] = "]" THEN [do |-> "skip", text |-> <<>>]
    ELSE IF UsefulText(part) = <<>> THEN [do |-> "skip", text |-> <<>>]
    ELSE [do |-> "speak", text |-> TextToSpeak(UsefulText(part))]

\* The loop of lines 916-993 without the branch for unknown markers.
PartStep_unknown_marker_spoken(part, loaded) ==
    IF part \in vignette_markers /\ loaded THEN [do |-> "vignette", text |-> <<>>]
    ELSE IF part \in markers_to_remove THEN [do |-> "skip", text |-> <<>>]
    ELSE IF UsefulText(part) = <<>> THEN [do |-> "skip", text |-> <<>>]
    ELSE IF TextToSpeak(UsefulText(part)) = <<>> THEN [do |-> "skip", text |-> <<>>]
    ELSE [do |-> "speak", text |-> TextToSpeak(UsefulText(part))]

\* What the loop of lines 916-993 does with a part: "vignette" appends the
\* vignette, "skip" does nothing, "speak" sends text to speech synthesis.
PartStep(part, loaded) ==
    IF part \in vignette_markers /\ loaded THEN [do |-> "vignette", text |-> <<>>]
    ELSE IF part \in markers_to_remove THEN [do |-> "skip", text |-> <<>>]
    ELSE IF part[1] = "[" /\ part[Len(part)] = "]" THEN [do |-> "skip", text |-> <<>>]
    ELSE CleanStep(UsefulText(part))

----------------------------------------------------------------------------
\* The generator object.

Self ==
    [repo_owner |-> repo_owner, repo_name |-> repo_name, repo_url |-> repo_url,
     branch |-> branch, code_files |-> code_files, readme_content |-> readme_content,
     repo_summary |-> repo_summary, complexity_level |-> complexity_level,
     total_code_chars_collected |-> total_code_chars_collected]

\* A parsed URL: its netloc and the parts of its path split at "/".
Url(netloc, path_parts) == [netloc |-> netloc, path_parts |-> path_parts]

\* "github.com" in parsed_url.netloc
IsGithub(netloc) == netloc \in {"github.com", "www.github.com"}

\* path_parts[1].replace('.git', '')
StripGit(name) == IF name = "tools.git" THEN "tools" ELSE name

\* f"https://github.com/{self.repo_owner}/{self.repo_name}"
RepoUrl(owner, name) == <<"https", ":", "//github", ".", "com/", owner, "/", name>>

\* _get_default_branch: the default branch the API names, "main" on a request error.
_get_default_branch(reply) == IF reply.status = "ok" THEN reply.default_branch ELSE "main"

\* parse_github_url with a _reset_state that leaves repo_summary alone.
parse_github_url_summary_kept(url, reply) ==
    /\ UNCHANGED gemini_api_key
    /\ IF ~IsGithub(url.netloc) \/ Len(url.path_parts) < 2
       THEN /\ ret' = FALSE
            /\ UNCHANGED <<repo_owner, repo_name, repo_url, branch, code_files,
                           readme_content, repo_summary, complexity_level,
                           total_code_chars_collected>>
       ELSE LET named == Len(url.path_parts) > 3 /\ url.path_parts[3] = "tree"
            IN  /\ repo_owner' = url.path_parts[1]
                /\ repo_name' = StripGit(url.path_parts[2])
                /\ repo_url' = RepoUrl(url.path_parts[1], StripGit(url.path_parts[2]))
                \* _reset_state
                /\ code_files' = <<>>
                /\ readme_content' = EmptyReadme
                /\ repo_summary' = repo_summary
                /\ complexity_level' = "medium"
                /\ total_code_chars_collected' = 0
                /\ branch' = IF named THEN url.path_parts[4]
                             ELSE IF reply.status = "invalid" THEN "main"
                             ELSE _get_default_branch(reply)
                /\ ret' = (named \/ reply.status # "invalid")

\* parse_github_url(url); reply is the answer to the default-branch request.
\* A body that is no JSON object raises inside the method, after the reset.
parse_github_url(url, reply) ==
    /\ UNCHANGED gemini_api_key
    /\ IF ~IsGithub(url.netloc) \/ Len(url.path_parts) < 2
       THEN /\ ret' = FALSE
            /\ UNCHANGED <<repo_owner, repo_name, repo_url, branch, code_files,
                           readme_content, repo_summary, complexity_level,
                           total_code_chars_collected>>
       ELSE LET named == Len(url.path_parts) > 3 /\ url.path_parts[3] = "tree"
            IN  /\ repo_owner' = url.path_parts[1]
                /\ repo_name' = StripGit(url.path_parts[2])
                /\ repo_url' = RepoUrl(url.path_parts[1], StripGit(url.path_parts[2]))
                \* _reset_state
                /\ code_files' = <<>>
                /\ readme_content' = EmptyReadme
                /\ repo_summary' = <<>>
                /\ complexity_level' = "medium"
                /\ total_code_chars_collected' = 0
                /\ branch' = IF named THEN url.path_parts[4]
                             ELSE IF reply.status = "invalid" THEN "main"
                             ELSE _get_default_branch(reply)
                /\ ret' = (named \/ reply.status # "invalid")

\* fetch_repo_structure answering True whatever the tree request did.
fetch_repo_structure_error_ignored(reply) ==
    LET st == IF reply.status = "ok" THEN FetchLoop(reply.tree, 1, FetchStart)
              ELSE FetchStart
    IN  /\ code_files' = st.code_files
        /\ readme_content' = st.readme_content
        /\ total_code_chars_collected' = st.total_code_chars_collected
        /\ ret' = TRUE
        /\ UNCHANGED <<gemini_api_key, repo_owner, repo_name, repo_url, branch,
                       repo_summary, complexity_level>>

\* fetch_repo_structure; reply is the answer to the tree request.
fetch_repo_structure(reply) ==
    LET st == IF reply.status = "ok" THEN FetchLoop(reply.tree, 1, FetchStart)
              ELSE FetchStart
    IN  /\ code_files' = st.code_files
        /\ readme_content' = st.readme_content
        /\ total_code_chars_collected' = st.total_code_chars_collected
        /\ ret' = (reply.status = "ok")
        /\ UNCHANGED <<gemini_api_key, repo_owner, repo_name, repo_url, branch,
                       repo_summary, complexity_level>>

\* _extract_repo_summary: title, owner, url, branch and description.
DefaultDescription(self) ==
    <<"Um", " ", "repositório", " ", "GitHub", " ", "de", " ">>
    \o <<self.repo_owner>>
    \o <<" ", "sem", " ", "README", ".", "md", " ", "detalhado", ".">>

_extract_repo_summary(self) ==
    [title |-> IF self.readme_content.chars > 0 /\ self.readme_content.title # NoTitle
               THEN self.readme_content.title ELSE <<self.repo_name>>,
     owner |-> self.repo_owner,
     url |-> self.repo_url,
     branch |-> self.branch,
     description |-> IF self.readme_content.chars > 0
                     THEN self.readme_content.description
                     ELSE DefaultDescription(self)]

\* ext = file["extension"][1:], 'yml' counted as 'yaml'
Language(ext) == IF ext = "yml" THEN "yaml" ELSE ext

\* languages[ext] = languages.get(ext, 0) + 1 over the files: the dict in
\* insertion order, one [lang, count] per language.
LanguageCount(files, lang) ==
    Cardinality({i \in 1..Len(files) : Language(files[i].extension) = lang})

RECURSIVE LanguagesSeen(_, _, _)
LanguagesSeen(files, i, seen) ==
    IF i > Len(files) THEN seen
    ELSE LET lang == Language(files[i].extension)
         IN  LanguagesSeen(files, i + 1,
                 IF \E k \in 1..Len(seen) : seen[k] = lang THEN seen
                 ELSE Append(seen, lang))

CountLanguages(files) ==
    LET seen == LanguagesSeen(files, 1, <<>>)
    IN  [k \in 1..Len(seen) |-> [lang |-> seen[k], count |-> LanguageCount(files, seen[k])]]

\* sorted(..., key=count, reverse=True): stable, by falling count.
RECURSIVE InsertByCount(_, _)
InsertByCount(sorted, x) ==
    IF sorted = <<>> THEN <<x>>
    ELSE IF Head(sorted).count >= x.count THEN <<Head(sorted)>> \o InsertByCount(Tail(sorted), x)
    ELSE <<x>> \o sorted

RECURSIVE SortByCount(_, _, _)
SortByCount(langs, i, sorted) ==
    IF i > Len(langs) THEN sorted
    ELSE SortByCount(langs, i + 1, InsertByCount(sorted, langs[i]))

\* _analyze_code_structure: languages and file_count.
_analyze_code_structure(self) ==
    [languages |-> SortByCount(CountLanguages(self.code_files), 1, <<>>),
     file_count |-> Len(self.code_files)]

\* The repo_summary analyze_repository leaves.  _identify_key_components adds
\* key_files_guess, which orders the payload of the request only.
AnalyzedSummary(self) ==
    LET a == _extract_repo_summary(self)
        b == _analyze_code_structure(self)
    IN  [title |-> a.title, owner |-> a.owner, url |-> a.url, branch |-> a.branch,
         description |-> a.description, languages |-> b.languages,
         file_count |-> b.file_count]

\* if not self.code_files and not self.readme_content: return False
NothingToAnalyze(self) == self.code_files = <<>> /\ self.readme_content.chars = 0

\* The generator analyze_repository leaves.
Analyzed(self) ==
    IF NothingToAnalyze(self) THEN self
    ELSE LET summarized == [self EXCEPT !.repo_summary = AnalyzedSummary(self)]
         IN  [summarized EXCEPT
                !.complexity_level = _assess_repository_complexity(summarized)]

analyze_repository ==
    /\ repo_summary' = Analyzed(Self).repo_summary
    /\ complexity_level' = Analyzed(Self).complexity_level
    /\ ret' = ~NothingToAnalyze(Self)
    /\ UNCHANGED <<gemini_api_key, repo_owner, repo_name, repo_url, branch, code_files,
                   readme_content, total_code_chars_collected>>

----------------------------------------------------------------------------
\* generate_podcast_script and its fallback.

\* self.gemini_model_name
gemini_model_name == <<"gemini", "-", "2", ".", "5", "-", "pro", "-", "exp", "-", "03", "-", "25">>

\* str.upper() and str.lower() on the words the model writes.
Upper(level) ==
    IF level = "simple" THEN "SIMPLE"
    ELSE IF level = "medium" THEN "MEDIUM"
    ELSE IF level = "complex" THEN "COMPLEX"
    ELSE level

LowerWord(t) ==
    IF t = "Invalid" THEN "invalid"
    ELSE IF t = "JSON" THEN "json"
    ELSE IF t = "Rate" THEN "rate"
    ELSE IF t = "Permission" THEN "permission"
    ELSE t

Lower(s) == SubSeq([i \in 1..Len(s) |-> LowerWord(s[i])], 1, Len(s))

\* Line 827: self.repo_summary.get("languages", {"código"}).keys() raises
\* AttributeError when repo_summary has no "languages", the default being a set.
StubRaises(self) == "languages" \notin DOMAIN self.repo_summary

\* The text _generate_stub_podcast_script returns (lines 834-858).
StubText(self, error_message) ==
    LET repo_title ==
            IF "title" \in DOMAIN self.repo_summary THEN self.repo_summary.title
            ELSE IF self.repo_name # NoName THEN <<self.repo_name>> ELSE <<"N/A">>
        repo_owner_name ==
            IF self.repo_owner # NoName THEN <<self.repo_owner>> ELSE <<"N/A">>
        main_language ==
            IF self.repo_summary.languages = <<>> THEN "código"
            ELSE self.repo_summary.languages[1].lang
        repo_desc ==
            IF "description" \in DOMAIN self.repo_summary THEN self.repo_summary.description
            ELSE <<"Não", " ", "foi", " ", "possível", " ", "carregar", " ", "a", " ",
                   "descrição", ".">>
        repo_link ==
            IF self.repo_url # <<>> THEN self.repo_url
            ELSE <<"URL", " ", "não", " ", "disponível">>
        model_name_mention ==
            <<" ", "(", "tentativa", " ", "com", " ">> \o gemini_model_name \o <<")">>
    IN  <<"\n", "        ", "[", "VINHETA", " ", "DE", " ", "ABERTURA", "]", "\n", "\n",
          "        ", "LOCUTOR", ":", " ", "Olá", "!", " ", "Bem", "-", "vindos", " ",
          "ao", " ", "Explica", " ", "Código", "!", " ", "Infelizmente", ",", " ", "hoje",
          " ", "encontramos", " ", "um", " ", "problema", " ", "técnico", " ", "ao", " ",
          "tentar", " ", "gerar", " ", "a", " ", "análise", " ", "detalhada", " ", "do",
          " ", "repositório">>
        \o model_name_mention
        \o <<".", " ", "A", " ", "mensagem", " ", "de", " ", "erro", " ", "foi", ":", " ",
          "\"">>
        \o error_message
        \o <<"\"", ".", "\n", "\n", "        ", "LOCUTOR", ":", " ", "Mesmo", " ", "sem", " ",
          "a", " ", "análise", " ", "da", " ", "IA", ",", " ", "vamos", " ", "dar", " ",
          "uma", " ", "olhada", " ", "nas", " ", "informações", " ", "básicas", " ", "que",
          " ", "conseguimos", " ", "coletar", ".", "\n", "\n", "        ", "[", "VINHETA",
          " ", "DE", " ", "TRANSIÇÃO", "]", "\n", "\n", "        ", "LOCUTOR", ":", " ",
          "O", " ", "repositório", " ", "que", " ", "íamos", " ", "explorar", " ", "é",
          " ", "o", " ", "'">>
        \o repo_title
        \o <<"'", ",", " ", "mantido", " ", "por", " ", "'">>
        \o repo_owner_name
        \o <<"'", ".", " ", "Pelo", " ", "que", " ", "vimos", ",", " ", "ele", " ", "parece",
          " ", "ser", " ", "escrito", " ", "principalmente", " ", "em", " ", "'">>
        \o <<main_language>>
        \o <<"'", ".", "\n", "\n", "        ", "LOCUTOR", ":", " ", "A", " ", "descrição",
          " ", "que", " ", "encontramos", " ", "sugere", " ", "que", " ", "o", " ",
          "objetivo", " ", "do", " ", "projeto", " ", "é", ":", " ">>
        \o repo_desc
        \o <<"\n", "\n", "        ", "LOCUTOR", ":", " ", "Como", " ", "não", " ",
          "conseguimos", " ", "gerar", " ", "o", " ", "roteiro", " ", "completo", ",", " ",
          "a", " ", "dica", " ", "de", " ", "hoje", " ", "é", " ", "mais", " ", "genérica",
          ":", " ", "ao", " ", "explorar", " ", "um", " ", "novo", " ", "repositório", ",",
          " ", "sempre", " ", "comece", " ", "pelo", " ", "README", ".", "md", "!", " ",
          "Ele", " ", "geralmente", " ", "contém", " ", "a", " ", "visão", " ", "geral",
          ",", " ", "instruções", " ", "de", " ", "instalação", " ", "e", " ", "uso", ".",
          "\n", "\n", "        ", "LOCUTOR", ":", " ", "Depois", " ", "do", " ", "README",
          ",", " ", "procure", " ", "por", " ", "arquivos", " ", "de", " ", "configuração",
          " ", "(", "como", " ", "'package", ".", "json'", ",", " ", "'requirements", ".",
          "txt'", ",", " ", "'pom", ".", "xml'", ")", ",", " ", "arquivos", " ", "de", " ",
          "ponto", " ", "de", " ", "entrada", " ", "(", "como", " ", "'main", ".", "py'",
          ",", " ", "'index", ".", "js'", ",", " ", "'Program", ".", "cs'", ")", " ", "e",
          " ", "a", " ", "estrutura", " ", "geral", " ", "de", " ", "pastas", " ", "(",
          "como", " ", "'src'", ",", " ", "'app'", ",", " ", "'lib'", ",", " ", "'tests'",
          ",", " ", "'docs'", ")", ".", "\n", "\n", "        ", "LOCUTOR", ":", " ",
          "Pedimos", " ", "desculpas", " ", "por", " ", "não", " ", "termos", " ", "o",
          " ", "episódio", " ", "completo", " ", "hoje", ".", " ", "Recomendamos", " ",
          "que", " ", "você", " ", "mesmo", " ", "navegue", " ", "pelo", " ",
          "repositório", " ", "no", " ", "link", " ", "que", " ", "deixaremos", " ", "na",
          " ", "descrição", ",", " ", "caso", " ", "ele", " ", "esteja", " ", "disponível",
          ":", " ">>
        \o repo_link
        \o <<"\n", "\n", "        ", "[", "VINHETA", " ", "DE", " ", "ENCERRAMENTO", "]",
          "\n", "        ", "-", "-", "-", "\n", "        ", "Roteiro", " ", "de", " ",
          "exemplo", " ", "gerado", " ", "devido", " ", "a", " ", "erro", ".", "\n",
          "        ", "Repositório", ":", " ">>
        \o repo_link
        \o <<"\n", "        ", "Erro", ":", " ">>
        \o error_message
        \o <<"\n", "        ">>

\* _generate_stub_podcast_script(error_message): the stub, or the exception.
_generate_stub_podcast_script(self, error_message) ==
    IF StubRaises(self) THEN [source |-> "raised", text |-> <<>>]
    ELSE [source |-> "stub", text |-> StubText(self, error_message)]

SelectPrompt_detailed_unless_simple(self) ==
    IF self.complexity_level # "simple" THEN "DETALHADO" ELSE "CONCISO"

\* Lines 550-559: the prompt chosen, named by its log_prefix.
SelectPrompt(self) ==
    IF self.complexity_level = "complex" THEN "DETALHADO" ELSE "CONCISO"

\* The footer of lines 666-672.
ScriptFooter(self, prefix) ==
    <<"\n", "            ", "\n", "\n", "-", "-", "-", "\n", "\n", "            ", "[",
      "VINHETA", " ", "DE", " ", "ENCERRAMENTO", "]", "\n", "\n", "            ",
      "Roteiro", " ">>
    \o <<prefix>>
    \o <<" ", "gerado", " ", "por", " ", "Explica", " ", "Código", " ", "(", "usando",
      " ">>
    \o gemini_model_name
    \o <<")", ".", "\n", "            ", "Repositório", " ", "analisado", ":", " ">>
    \o self.repo_url
    \o <<"\n", "            ", "Complexidade", " ", "estimada", ":", " ">>
    \o <<Upper(self.complexity_level)>>
    \o <<"\n", "            ">>

\* Lines 693-703: error_detail for the text of an exception.
ErrorDetail(e) ==
    IF \/ Contains(e, <<"429">>)
       \/ Contains(e, <<"ResourceExhaustedError">>)
       \/ Contains(Lower(e), <<"rate", " ", "limit">>)
    THEN <<"Limite", " ", "de", " ", "taxa", " ", "da", " ", "API", " ", "Gemini", " ",
      "atingido", ".">>
    ELSE IF \/ Contains(e, <<"API", " ", "key", " ", "not", " ", "valid">>)
            \/ Contains(Lower(e), <<"permission", " ", "denied">>)
    THEN <<"API", " ", "Key", " ", "inválida", " ", "ou", " ", "sem", " ", "permissão", ".">>
    ELSE IF Contains(Lower(e), <<"invalid", " ", "json">>)
    THEN <<"Erro", " ", "interno", " ", "na", " ", "formatação", " ", "dos", " ", "dados",
      ".">>
    ELSE <<"Erro", " ", "inesperado", " ", "na", " ", "IA", ":", " ">> \o e

\* The error message of the stub for each failure of the request (lines 646-707).
FailureMessage(reply) ==
    IF reply.kind = "no_candidates"
    THEN <<"Erro", ":", " ", "Conteúdo", " ", "bloqueado", " ", "pela", " ", "política",
      " ", "de", " ", "segurança", " ", "da", " ", "IA", " ", "(">>
         \o gemini_model_name \o <<")", ".", " ", "Razão", ":", " ">> \o reply.text
    ELSE IF reply.kind = "BlockedPromptException"
    THEN <<"Erro", ":", " ", "Conteúdo", " ", "bloqueado", " ", "pela", " ", "política",
      " ", "de", " ", "segurança", " ", "da", " ", "IA", " ", "(">>
         \o gemini_model_name \o <<")", ".">>
    ELSE IF reply.kind = "StopCandidateException"
    THEN <<"Erro", ":", " ", "Geração", " ", "interrompida", " ", "pela", " ", "IA", " ",
      "(">>
         \o gemini_model_name
         \o <<")", ",", " ", "possivelmente", " ", "por", " ", "segurança", " ", "no", " ",
      "conteúdo", " ", "gerado", ".">>
    ELSE IF reply.kind = "RequestException"
    THEN <<"Erro", " ", "de", " ", "comunicação", " ", "com", " ", "a", " ", "API", ":",
      " ">> \o reply.text
    ELSE <<"Erro", " ", "na", " ", "comunicação", " ", "com", " ", "o", " ", "modelo", " ">>
         \o gemini_model_name \o <<":", " ">> \o ErrorDetail(reply.text)

\* What generate_podcast_script does on generator self0 with configured key
\* `key` when the service answers reply: the generator it leaves, the prompt
\* it chose and what it returns.
ScriptOf(self0, key, reply) ==
    LET analyze == self0.repo_summary = <<>>
        self == IF analyze THEN Analyzed(self0) ELSE self0
        prefix == SelectPrompt(self)
    IN  IF analyze /\ NothingToAnalyze(self0)
        THEN [self |-> self0, log_prefix |-> NoName,
              result |-> _generate_stub_podcast_script(self0,
                  <<"Falha", " ", "ao", " ", "analisar", " ", "o", " ", "repositório", ".">>)]
        ELSE IF ~key
        THEN [self |-> self, log_prefix |-> prefix,
              result |-> _generate_stub_podcast_script(self,
                  <<"API", " ", "indisponível", " ", "ou", " ", "erro", " ", "na", " ", "geração">>)]
        ELSE IF reply.kind = "text"
        THEN [self |-> self, log_prefix |-> prefix,
              result |-> [source |-> "model",
                          text |-> Strip(reply.text \o ScriptFooter(self, prefix))]]
        ELSE [self |-> self, log_prefix |-> prefix,
              result |-> _generate_stub_podcast_script(self, FailureMessage(reply))]

\* The progress callback (update_progress of src/app.py, lines 99-104).

\* A fraction n / d, exact.
Frac(n, d) == [n |-> n, d |-> d]

\* a <= b for fractions of positive denominators.
FracLeq(a, b) == a.n * b.d <= b.n * a.d

\* The values passed to the callback, in the order of the calls.
Report(reported, values) == reported \o values

\* Lines 216-222: progress_val * 0.5 for each blob of the tree, progress_val
\* being the share of the blobs taken so far.
ReadingProgress(tree) == [k \in 1..Len(tree) |-> Frac(k, 2 * Len(tree))]

\* Line 919: 0.95 + (0.05 * (processed_parts / total_parts))
current_progress(processed, total_parts) == Frac(19 * total_parts + processed, 20 * total_parts)

\* progress_stage of lines 553 and 558, in hundredths.
progress_stage(prefix) == IF prefix = "DETALHADO" THEN 70 ELSE 75

\* What generate_podcast_script passes to the callback: 0.55 when it analyzes
\* (line 336), progress_stage * 0.8 (line 568) and progress_stage (line 619)
\* when a key is configured, 0.9 when the service answered a text (line 675).
ScriptProgress(self0, key, reply) ==
    LET call == ScriptOf(self0, key, reply)
        analyze == self0.repo_summary = <<>>
        analysis == IF analyze /\ ~NothingToAnalyze(self0) THEN <<Frac(55, 100)>> ELSE <<>>
        stage == progress_stage(call.log_prefix)
    IN  IF analyze /\ NothingToAnalyze(self0) THEN analysis
        ELSE IF ~key THEN analysis
        ELSE analysis \o <<Frac(stage * 8, 1000), Frac(stage, 100)>>
             \o (IF reply.kind = "text" THEN <<Frac(9, 10)>> ELSE <<>>)

generate_podcast_script(reply) ==
    LET call == ScriptOf(Self, gemini_api_key, reply)
    IN  /\ repo_summary' = call.self.repo_summary
        /\ complexity_level' = call.self.complexity_level
        /\ log_prefix' = call.log_prefix
        /\ script_source' = call.result.source
        /\ podcast_script' = call.result.text
        /\ ret' = (call.result.source # "raised")
        /\ UNCHANGED <<gemini_api_key, repo_owner, repo_name, repo_url, branch, code_files,
                       readme_content, total_code_chars_collected>>

----------------------------------------------------------------------------
\* The run of src/app.py after the button is pressed: URL parse, structure
\* fetch and analysis (lines 107-124).

Levels == {"simple", "medium", "complex"}

BranchReplies ==
    {[status |-> "ok", default_branch |-> "main"],
     [status |-> "ok", default_branch |-> "dev"],
     [status |-> "error", default_branch |-> "main"],
     [status |-> "invalid", default_branch |-> "main"]}

Init ==
    /\ gemini_api_key \in BOOLEAN
    /\ repo_owner = NoName /\ repo_name = NoName /\ repo_url = <<>>
    /\ branch = "main"
    /\ code_files = <<>>
    /\ readme_content = EmptyReadme
    /\ repo_summary = <<>>
    /\ complexity_level = "medium"
    /\ total_code_chars_collected = 0
    /\ pc = "parse"
    /\ ret = TRUE
    /\ log_prefix = NoName
    /\ podcast_script = <<>>
    /\ script_source = NoName
    /\ vignette_load = NoName
    /\ vignette = FALSE
    /\ vignette_ms = 0
    /\ clip_parts = <<>>
    /\ clip_ms = <<>>
    /\ combined_audio = <<>>
    /\ parts = <<>>
    /\ processed_parts = 0
    /\ final_segments = <<>>
    /\ tts_requests = <<>>
    /\ tts_outcomes = <<>>
    /\ podcast_audio_bytes = NoName
    /\ progress = <<>>
    /\ collection_errors = {}
    /\ blob_items = <<>>
    /\ blobs_processed_for_content = 0
    /\ files_content_read_count = 0

\* The requests of the collection that failed, as the handlers of lines
\* 178-185, 271-278 and 316-323 log them.

\* _get_default_branch is called for a URL that names no branch; a
\* RequestException makes it answer "main".
BranchErrors(url, reply) ==
    IF IsGithub(url.netloc) /\ Len(url.path_parts) >= 2
       /\ ~(Len(url.path_parts) > 3 /\ url.path_parts[3] = "tree")
       /\ reply.status = "error"
    THEN {"branch"} ELSE {}

\* The blobs of a tree whose download failed: the README and the code files
\* are requested while fewer than max_files_to_read_content were read.
FailedDownloads(items) ==
    {i \in 1..Len(items) :
        /\ items[i].kind \in {"readme", "code"}
        /\ items[i].kind = "code" =>
              InCodeExtensions(items[i].extension) /\ i <= max_files_to_read_content
        /\ items[i].chars = None}

\* The tree request failed, or some blob request did.
TreeErrors(reply) ==
    IF reply.status # "ok" THEN {"tree"}
    ELSE IF FailedDownloads(reply.tree) # {} THEN {"blob"} ELSE {}

\* if not generator.parse_github_url(repo_url): st.stop()
AppParse(urls, replies) ==
    /\ pc = "parse"
    /\ \E url \in urls, reply \in replies :
          /\ parse_github_url(url, reply)
          /\ collection_errors' = BranchErrors(url, reply)
          /\ UNCHANGED fetch_locals
    /\ pc' = IF ret' THEN "fetch" ELSE "stopped_at_parse"
    /\ progress' = IF ret' THEN Report(progress, <<Frac(1, 10)>>) ELSE progress
    /\ UNCHANGED <<script_vars, audio_vars>>

\* if not generator.fetch_repo_structure(...): st.stop()
AppFetch_goes_on(trees) ==
    /\ pc = "fetch"
    /\ \E reply \in {[status |-> "ok", tree |-> t] : t \in trees}
                    \cup {[status |-> "error", tree |-> <<>>]} :
          /\ fetch_repo_structure(reply)
          /\ collection_errors' = collection_errors \cup TreeErrors(reply)
          /\ UNCHANGED fetch_locals
          /\ progress' = Report(progress,
                 ReadingProgress(reply.tree)
                 \o (IF reply.status = "ok" THEN <<Frac(5, 10)>> ELSE <<>>))
    /\ pc' = "analyze"
    /\ UNCHANGED <<script_vars, audio_vars>>

AppFetch(trees) ==
    /\ pc = "fetch"
    /\ \E reply \in {[status |-> "ok", tree |-> t] : t \in trees}
                    \cup {[status |-> "error", tree |-> <<>>]} :
          /\ fetch_repo_structure(reply)
          /\ collection_errors' = collection_errors \cup TreeErrors(reply)
          /\ UNCHANGED fetch_locals
          /\ progress' = Report(progress,
                 ReadingProgress(reply.tree)
                 \o (IF reply.status = "ok" THEN <<Frac(5, 10)>> ELSE <<>>))
    /\ pc' = IF ret' THEN "analyze" ELSE "stopped_at_fetch"
    /\ UNCHANGED <<script_vars, audio_vars>>

\* generator.analyze_repository(): a False only warns, the run goes on.
AppAnalyze ==
    /\ pc = "analyze"
    /\ analyze_repository
    /\ pc' = "script"
    /\ progress' = Report(progress, <<Frac(6, 10)>>)
    /\ UNCHANGED <<collection_errors, fetch_locals>>
    /\ UNCHANGED <<script_vars, audio_vars>>

\* Lines 127-133: generator.generate_podcast_script(); an exception ends the
\* run in the handler of line 181, a script that is empty or contains "Erro:"
\* stops it.
AppScript(replies) ==
    /\ pc = "script"
    /\ \E reply \in replies :
          /\ generate_podcast_script(reply)
          /\ pc' = IF script_source' = "raised" THEN "crashed"
                   ELSE IF podcast_script' = <<>>
                           \/ Contains(podcast_script', <<"Erro", ":">>)
                   THEN "stopped_at_script"
                   ELSE "audio"
          /\ progress' = Report(progress,
                 ScriptProgress(Self, gemini_api_key, reply)
                 \o (IF pc' = "audio" THEN <<Frac(9, 10)>> ELSE <<>>))
    /\ UNCHANGED <<collection_errors, fetch_locals>>
    /\ UNCHANGED audio_vars

----------------------------------------------------------------------------
\* generate_podcast_audio(podcast_script), one part of the script per step.

VignetteClip == [kind |-> "vignette", text |-> <<>>]
SpeechClip(text) == [kind |-> "speech", text |-> text]
\* AudioSegment.silent(duration=300)
SilenceClip == [kind |-> "silence", text |-> <<>>]

\* What lines 871-888 can do: the file is absent; from_mp3 or the slice
\* raises; fade_out raises after line 876 has set vignette; all succeed.
VignetteLoads == {"absent", "decode_error", "fade_error", "loaded"}

\* Whether vignette is set after lines 871-888: the handlers of lines 880-885
\* reset vignette_path and leave vignette as it is.
LoadVignette(outcome) == outcome \in {"fade_error", "loaded"}

\* vignette_duration_ms=5000 (line 860)
vignette_duration_ms == 5000

\* The lengths of the vignette file, in milliseconds.
VignetteFiles == {3000, 8000}

\* The clip kept whole, whatever its length.
VignetteMs_untrimmed(file_ms) == file_ms

\* Line 876: len(vignette_full[:vignette_duration_ms]); the fade of line 878
\* keeps the length.
VignetteMs(file_ms) == Min(file_ms, vignette_duration_ms)

\* AudioSegment.silent(duration=300)
silent_duration == 300

\* The durations of the clips of speech, in milliseconds.
SpeechDurations == {400, 1000}

\* Lines 866-910: the vignette is loaded or not, the script is split; a script
\* without parts returns None, which stops the run (app.py line 137).
AudioStart ==
    /\ pc = "audio"
    /\ vignette_load' \in VignetteLoads
    /\ vignette' = LoadVignette(vignette_load')
    /\ \E file_ms \in IF vignette' THEN VignetteFiles ELSE {0} :
          vignette_ms' = IF vignette' THEN VignetteMs(file_ms) ELSE 0
    /\ parts' = Parts(podcast_script)
    /\ processed_parts' = 0
    /\ final_segments' = <<>>
    /\ clip_parts' = <<>>
    /\ clip_ms' = <<>>
    /\ tts_requests' = <<>>
    /\ tts_outcomes' = <<>>
    /\ combined_audio' = <<>>
    /\ podcast_audio_bytes' = IF parts' = <<>> THEN "None" ELSE NoName
    /\ pc' = IF parts' = <<>> THEN "stopped_at_audio" ELSE "audio_parts"
    /\ progress' = Report(progress, <<Frac(95, 100)>>)
    /\ UNCHANGED <<gen_vars, ret, script_vars, collection_errors, fetch_locals>>

\* The answers of speech synthesis: a clip, an exception of gTTS (line 987),
\* or a clip pydub cannot load (line 980).
TtsOutcomes == {"ok", "gtts_error", "pydub_error"}

\* Two pauses after the speech.
NarrationClips_two_pauses(outcome, text) ==
    IF outcome = "ok" THEN <<SpeechClip(text), SilenceClip, SilenceClip>> ELSE <<>>

\* A pause collected for a narration whose synthesis failed.
NarrationClips_silence_after_failure(outcome, text) ==
    IF outcome = "ok" THEN <<SpeechClip(text), SilenceClip>> ELSE <<SilenceClip>>

\* The clips of lines 975-978 for a text, none when line 980 or 987 catches.
NarrationClips(outcome, text) ==
    IF outcome = "ok" THEN <<SpeechClip(text), SilenceClip>> ELSE <<>>

\* The clips of a part put before the clips collected.
Collect_at_front(collected, new) == new \o collected

\* final_segments.append, for the clips of one part.
Collect(collected, new) == collected \o new

\* Lines 916-993, one iteration.
AudioPart ==
    /\ pc = "audio_parts"
    /\ processed_parts < Len(parts)
    /\ processed_parts' = processed_parts + 1
    /\ progress' = Report(progress, <<current_progress(processed_parts', Len(parts))>>)
    /\ \E step \in {PartStep(parts[processed_parts + 1], vignette)} :
          IF step.do = "vignette"
          THEN /\ final_segments' = Collect(final_segments, <<VignetteClip>>)
               /\ clip_parts' = Collect(clip_parts, <<processed_parts'>>)
               /\ clip_ms' = Collect(clip_ms, <<vignette_ms>>)
               /\ UNCHANGED <<tts_requests, tts_outcomes>>
          ELSE IF step.do = "skip"
          THEN UNCHANGED <<final_segments, clip_parts, clip_ms, tts_requests,
                           tts_outcomes>>
          ELSE /\ tts_requests' = Append(tts_requests, step.text)
               /\ \E outcome \in TtsOutcomes :
                  \E ms \in IF outcome = "ok" THEN SpeechDurations ELSE {0} :
                  \E clips \in {NarrationClips(outcome, step.text)} :
                     /\ tts_outcomes' = Append(tts_outcomes, outcome)
                     /\ final_segments' = Collect(final_segments, clips)
                     /\ clip_parts' = Collect(clip_parts,
                            [c \in 1..Len(clips) |-> processed_parts'])
                     /\ clip_ms' = Collect(clip_ms,
                            [c \in 1..Len(clips) |->
                                IF clips[c].kind = "silence" THEN silent_duration
                                ELSE ms])
    /\ UNCHANGED <<gen_vars, pc, ret, script_vars, vignette_load, vignette, vignette_ms,
                   parts, combined_audio, podcast_audio_bytes, collection_errors, fetch_locals>>

\* The track without the first of the clips collected.
Concatenate_without_first(segments, origins, durations) ==
    [c \in 1..(Len(segments) - 1) |->
        [part |-> origins[c + 1], sound |-> segments[c + 1].kind # "silence",
         ms |-> durations[c + 1]]]

\* Lines 1000-1003: the clips added to combined_audio in the order of
\* final_segments; a stretch of the track has the part it comes from, whether
\* it sounds, and its duration.
Concatenate(segments, origins, durations) ==
    [c \in 1..Len(segments) |->
        [part |-> origins[c], sound |-> segments[c].kind # "silence",
         ms |-> durations[c]]]

\* strip_silence(silence_len=100, ...) of line 1007
silence_len == 100

\* The padding strip_silence keeps around what sounds (its default).
padding == 100

\* The track left as it was concatenated.
strip_silence_skipped(track) == track

\* Line 1007: strip_silence of pydub splits the track at every silence of
\* silence_len or more, keeps padding of silence at each side of what sounds
\* and joins the pieces with a crossfade of padding / 2.  The silences of the
\* track are the pause clips: each follows a clip of speech, so a silence is
\* between two sounds or at the end.
strip_silence(track) ==
    [c \in 1..Len(track) |->
        IF track[c].sound \/ track[c].ms < silence_len THEN track[c]
        ELSE IF c = Len(track) THEN [track[c] EXCEPT !.ms = Min(@, padding)]
        ELSE [track[c] EXCEPT !.ms = Min(@, 2 * padding) - (padding \div 2)]]

\* The MP3 exported whatever was collected.
AudioResult_without_clips(segments, exported) ==
    IF exported THEN "mp3" ELSE "None"

\* Lines 996-998 and 1010-1019: None without clips or when the export raises.
AudioResult(segments, exported) ==
    IF segments # <<>> /\ exported THEN "mp3" ELSE "None"

\* Lines 995-1025: None when no clip was made or when combining or exporting
\* raises, the MP3 otherwise.
AudioFinish ==
    /\ pc = "audio_parts"
    /\ processed_parts = Len(parts)
    /\ \E exported \in BOOLEAN :
          /\ podcast_audio_bytes' = AudioResult(final_segments, exported)
          /\ combined_audio' =
                IF podcast_audio_bytes' = "mp3"
                THEN strip_silence(Concatenate(final_segments, clip_parts, clip_ms))
                ELSE <<>>
    /\ pc' = IF podcast_audio_bytes' = "mp3" THEN "done" ELSE "stopped_at_audio"
    /\ progress' = IF podcast_audio_bytes' = "mp3" THEN Report(progress, <<Frac(1, 1)>>)
                   ELSE progress
    /\ UNCHANGED <<gen_vars, ret, script_vars, vignette_load, vignette, vignette_ms, parts,
                   processed_parts, final_segments, clip_parts, clip_ms, tts_requests,
                   tts_outcomes, collection_errors, fetch_locals>>

----------------------------------------------------------------------------
\* The whole run of src/app.py.

\* The script of the segmentation example, and a script with a transition.
LiteralScript ==
    <<"[", "VINHETA", " ", "DE", " ", "ABERTURA", "]", "\n", "LOCUTOR", ":", " ",
      "Olá", " ", "*", "*", "mundo", "*", "*", "!", "\n", "[", "VINHETA", " ", "DE",
      " ", "ENCERRAMENTO", "]">>

TwoBlockScript ==
    <<"[", "VINHETA", " ", "DE", " ", "ABERTURA", "]", "\n", "LOCUTOR", ":", " ",
      "Olá", " ", "*", "*", "mundo", "*", "*", "!", "\n", "[", "VINHETA", " ", "DE",
      " ", "TRANSIÇÃO", "]", "\n", "LOCUTOR", ":", " ", "Até", " ", "logo", ".", "\n",
      "[", "VINHETA", " ", "DE", " ", "ENCERRAMENTO", "]">>

\* The texts of the exceptions the model lets the service raise.
ErrorTexts ==
    {<<"429", " ", "Too", " ", "Many", " ", "Requests">>,
     <<"API", " ", "key", " ", "not", " ", "valid">>,
     <<"Invalid", " ", "JSON", " ", "payload">>,
     <<"[", "Errno", " ", "111", "]", " ", "Connection", " ", "refused">>,
     <<"timeout">>}

GeminiReplies ==
    {[kind |-> "text", text |-> t] : t \in {LiteralScript, TwoBlockScript}}
    \cup {[kind |-> "no_candidates", text |-> <<"SAFETY">>],
          [kind |-> "BlockedPromptException", text |-> <<>>],
          [kind |-> "StopCandidateException", text |-> <<>>]}
    \cup {[kind |-> k, text |-> e] : k \in {"RequestException", "Exception"}, e \in ErrorTexts}

PlainDescription == <<"Um", " ", "projeto", ".">>

ClassifyUrls == {Url("github.com", <<"alice", "podcast">>)}

\* A repository without code files or README, a small one, and one of each level.
AppTrees ==
    {<<OtherItem>>,
     Tree(1, 1000, 0, 1, EmptyReadme),
     Tree(1, 10000, 9, 4, Readme(200, PlainDescription)),
     Tree(10, 100000, 0, 5, Readme(5001, PlainDescription))}

AppNext ==
    \/ AppParse(ClassifyUrls, BranchReplies)
    \/ AppFetch(AppTrees)
    \/ AppAnalyze
    \/ AppScript(GeminiReplies)
    \/ AudioStart
    \/ AudioPart
    \/ AudioFinish

\* app.py line 79: the run starts only with an API key.
AppInit == Init /\ gemini_api_key

SpecApp == AppInit /\ [][AppNext]_vars

----------------------------------------------------------------------------
\* generate_podcast_audio called with a script on an analyzed generator.

\* The generator after parse_github_url, fetch_repo_structure and
\* analyze_repository on a repository with the given tree.
GeneratorOf(owner, name, tree) ==
    LET st == FetchLoop(tree, 1, FetchStart)
    IN  Analyzed([repo_owner |-> owner, repo_name |-> name,
                  repo_url |-> RepoUrl(owner, name), branch |-> "main",
                  code_files |-> st.code_files, readme_content |-> st.readme_content,
                  repo_summary |-> <<>>, complexity_level |-> "medium",
                  total_code_chars_collected |-> st.total_code_chars_collected])

\* A repository with code and a README.
AudioGenerators ==
    {GeneratorOf("alice", "podcast", Tree(1, 1000, 0, 1, Readme(200, PlainDescription)))}

\* Error messages generate_podcast_script passes to the stub: the default
\* one, and those of a response without candidates, of a stopped candidate,
\* of a refused connection and of a rate limit.
StubMessages ==
    {<<"API", " ", "indisponível", " ", "ou", " ", "erro", " ", "na", " ", "geração">>}
    \cup {FailureMessage(reply) :
             reply \in {r \in GeminiReplies :
                           \/ r.kind \in {"no_candidates", "StopCandidateException"}
                           \/ r.kind = "RequestException" /\ r.text[1] = "["
                           \/ r.kind = "Exception" /\ r.text[1] = "429"}}

StubScripts(self) ==
    {[source |-> "stub", text |-> StubText(self, m)] : m \in StubMessages}

\* Narration around a bracketed token that is no cue marker.
TextsBefore ==
    {<<>>,
     <<"Olá", " ">>,
     <<"LOCUTOR", ":", " ", "Olá", " ">>,
     <<"Olá", " ", "[", " ">>,
     <<"Olá", "\n">>}

BracketedTokens ==
    {<<"[", "FOO", "]">>,
     <<"[", "FOO", " ", "BAR", "]">>,
     <<"[", "FOO", "\n", "BAR", "]">>,
     <<"[", "]">>}

TextsAfter ==
    {<<>>,
     <<" ", "mundo">>,
     <<"\n", "mundo">>,
     <<"]", " ", "mundo">>,
     <<"(", "url", ")", " ", "mundo">>}

\* Narration with nested markup, with a hyperlink, and texts without anything
\* to say.
MarkupTexts ==
    {<<"-", " ", "-", " ", "item">>,
     <<"*", "*", "*", "a", "*", "*", "*">>,
     <<"LOCUTOR", ":", " ", "HOST", ":", " ", "oi">>,
     <<"#", " ", "#", " ", "a">>,
     <<"Veja", " ", "[", "docs", "]", "(", "http", ":", "//x", ")", " ", "aqui">>,
     <<>>,
     <<" ", " ", "\n", " ">>,
     <<"*", "*">>,
     <<"-", "-", "-", "\n", "fim">>}

\* Three blocks of narration between cue markers.
ThreeBlockScript ==
    <<"[", "VINHETA", " ", "DE", " ", "ABERTURA", "]", "\n", "LOCUTOR", ":", " ", "Um",
      ".", "\n", "[", "VINHETA", " ", "DE", " ", "TRANSIÇÃO", "]", "\n", "LOCUTOR",
      ":", " ", "Dois", ".", "\n", "[", "VINHETA", " ", "DE", " ", "TRANSIÇÃO", "]",
      "\n", "LOCUTOR", ":", " ", "Três", ".", "\n", "[", "VINHETA", " ", "DE", " ",
      "ENCERRAMENTO", "]">>

\* Two blocks of narration around one cue marker.
OneCueScript ==
    <<"LOCUTOR", ":", " ", "Um", ".", "\n", "[", "VINHETA", " ", "DE", " ",
      "TRANSIÇÃO", "]", "\n", "LOCUTOR", ":", " ", "Dois", ".">>

\* A narration followed by pieces the cleaning empties: emphasis marks alone,
\* a speaker label alone, a backtick alone, and a footer.
EmptiedPiecesScript ==
    <<"LOCUTOR", ":", " ", "Um", ".", "\n", "[", "FOO", "]", "\n", "*", "*", "\n",
      "[", "FOO", "]", "\n", "LOCUTOR", ":", "\n", "[", "FOO", "]", "\n", Backtick,
      "\n", "[", "FOO", "]", "\n", "-", "-", "-", "\n", "fim">>

GivenScripts ==
    {[source |-> "given", text |-> t] :
        t \in {LiteralScript, TwoBlockScript, ThreeBlockScript, OneCueScript,
               EmptiedPiecesScript}
              \cup MarkupTexts
              \cup {a \o b \o c : a \in TextsBefore, b \in BracketedTokens, c \in TextsAfter}}

InitAudio ==
    \E self \in AudioGenerators :
       \E script \in StubScripts(self) \cup GivenScripts :
          /\ gemini_api_key = TRUE
          /\ repo_owner = self.repo_owner
          /\ repo_name = self.repo_name
          /\ repo_url = self.repo_url
          /\ branch = self.branch
          /\ code_files = self.code_files
          /\ readme_content = self.readme_content
          /\ repo_summary = self.repo_summary
          /\ complexity_level = self.complexity_level
          /\ total_code_chars_collected = self.total_code_chars_collected
          /\ pc = "audio"
          /\ ret = TRUE
          /\ log_prefix = NoName
          /\ podcast_script = script.text
          /\ script_source = script.source
          /\ vignette_load = NoName
          /\ vignette = FALSE
          /\ vignette_ms = 0
          /\ clip_parts = <<>>
          /\ clip_ms = <<>>
          /\ combined_audio = <<>>
          /\ parts = <<>>
          /\ processed_parts = 0
          /\ final_segments = <<>>
          /\ tts_requests = <<>>
          /\ tts_outcomes = <<>>
          /\ podcast_audio_bytes = NoName
          /\ progress = <<>>
          /\ collection_errors = {}
          /\ blob_items = <<>>
          /\ blobs_processed_for_content = 0
          /\ files_content_read_count = 0

AudioNext ==
    \/ AudioStart
    \/ AudioPart
    \/ AudioFinish

SpecAudio == InitAudio /\ [][AudioNext]_vars

----------------------------------------------------------------------------
\* The four public methods called in any order on one generator, without a
\* progress callback (progress_callback=None); pc is the method that returned last.

CallUrls ==
    ClassifyUrls
    \cup {Url("github.com", <<"bob", "tools.git", "tree", "dev">>),
          Url("gitlab.com", <<"alice", "podcast">>),
          Url("github.com", <<"alice">>)}

CallReplies ==
    {[kind |-> "text", text |-> LiteralScript],
     [kind |-> "Exception", text |-> <<"API", " ", "key", " ", "not", " ", "valid">>]}

CallParse ==
    /\ \E url \in CallUrls, reply \in BranchReplies : parse_github_url(url, reply)
    /\ pc' = "parse_github_url"
    /\ UNCHANGED <<script_vars, audio_vars, progress, collection_errors, fetch_locals>>

CallFetch ==
    /\ \E reply \in {[status |-> "ok", tree |-> t] : t \in AppTrees}
                    \cup {[status |-> "error", tree |-> <<>>]} :
          fetch_repo_structure(reply)
    /\ pc' = "fetch_repo_structure"
    /\ UNCHANGED <<script_vars, audio_vars, progress, collection_errors, fetch_locals>>

CallAnalyze ==
    /\ analyze_repository
    /\ pc' = "analyze_repository"
    /\ UNCHANGED <<script_vars, audio_vars, progress, collection_errors, fetch_locals>>

CallScript ==
    /\ \E reply \in CallReplies : generate_podcast_script(reply)
    /\ pc' = "generate_podcast_script"
    /\ UNCHANGED <<audio_vars, progress, collection_errors, fetch_locals>>

CallNext ==
    \/ CallParse
    \/ CallFetch
    \/ CallAnalyze
    \/ CallScript

SpecCalls == Init /\ [][CallNext]_vars

----------------------------------------------------------------------------
\* fetch_repo_structure taken one blob at a time, on a new generator or on one
\* that has fetched before, without a progress callback.

\* More readable code files than max_files_to_read_content, the first larger
\* than max_chars_per_file_read, a README larger than it among them, some
\* blobs whose request fails and some empty ones.
LargeTree ==
    <<CodeItem("md", 200000), ReadmeItem(Readme(200000, PlainDescription))>>
    \o [i \in 1..(max_files_to_read_content + 10) |->
          CodeItem(code_extensions[(i % 3) + 1],
                   IF i % 700 = 0 THEN None ELSE IF i % 500 = 0 THEN 0 ELSE 10)]
    \o <<OtherItem>>

FetchTrees ==
    AppTrees
    \cup {LargeTree,
          <<CodeItem("py", 150001), ReadmeItem(Readme(150001, PlainDescription)),
            CodeItem("md", 0), CodeItem("js", None), CodeItem("go", 150000)>>,
          <<ReadmeItem(Readme(300, PlainDescription)), CodeItem("py", 40),
            ReadmeItem(Readme(0, PlainDescription)), CodeItem("md", 300)>>}

\* The loop state the generator and the locals of the method hold.
FetchState ==
    [code_files |-> code_files, readme_content |-> readme_content,
     total_code_chars_collected |-> total_code_chars_collected,
     files_content_read_count |-> files_content_read_count]

\* Lines 187-214: the reset, the tree request and the locals of the loop.
FetchBegin ==
    /\ pc \in {"parse", "fetch_returned"}
    /\ code_files' = <<>>
    /\ readme_content' = EmptyReadme
    /\ total_code_chars_collected' = 0
    /\ \E reply \in {[status |-> "ok", tree |-> t] : t \in FetchTrees}
                    \cup {[status |-> "error", tree |-> <<>>]} :
          /\ blob_items' = reply.tree
          /\ pc' = IF reply.status = "ok" THEN "fetch_loop" ELSE "fetch_returned"
          /\ ret' = IF reply.status = "ok" THEN ret ELSE FALSE
    /\ blobs_processed_for_content' = 0
    /\ files_content_read_count' = 0
    /\ UNCHANGED <<gemini_api_key, repo_owner, repo_name, repo_url, branch, repo_summary,
                   complexity_level, script_vars, audio_vars, progress, collection_errors>>

\* Lines 216-259: one turn of the loop.
FetchItem ==
    /\ pc = "fetch_loop"
    /\ blobs_processed_for_content < Len(blob_items)
    /\ \E st \in {FetchLoop(<<blob_items[blobs_processed_for_content + 1]>>, 1, FetchState)} :
          /\ code_files' = st.code_files
          /\ readme_content' = st.readme_content
          /\ total_code_chars_collected' = st.total_code_chars_collected
          /\ files_content_read_count' = st.files_content_read_count
    /\ blobs_processed_for_content' = blobs_processed_for_content + 1
    /\ UNCHANGED <<gemini_api_key, repo_owner, repo_name, repo_url, branch, repo_summary,
                   complexity_level, pc, ret, script_vars, audio_vars, progress,
                   collection_errors, blob_items>>

\* Lines 262-269: the loop is over.
FetchReturn ==
    /\ pc = "fetch_loop"
    /\ blobs_processed_for_content = Len(blob_items)
    /\ pc' = "fetch_returned"
    /\ ret' = TRUE
    /\ UNCHANGED <<gen_vars, script_vars, audio_vars, progress, collection_errors,
                   fetch_locals>>

\* Lines 279-281: an exception at the start of a turn of the loop (a blob
\* without "path") ends the method with what it has collected.
FetchRaise ==
    /\ pc = "fetch_loop"
    /\ blobs_processed_for_content < Len(blob_items)
    /\ pc' = "fetch_returned"
    /\ ret' = FALSE
    /\ UNCHANGED <<gen_vars, script_vars, audio_vars, progress, collection_errors,
                   fetch_locals>>

FetchNext ==
    \/ FetchBegin
    \/ FetchItem
    \/ FetchReturn
    \/ FetchRaise

SpecFetch == Init /\ [][FetchNext]_vars

----------------------------------------------------------------------------
\* The repositories explored for the classifier.

ContentCounts == {0, 1, 10}
ContentSizes ==
    {0, 100000, 200000}
    \cup {1000 + d : d \in 0..MaxDelta} \cup {10000 + d : d \in 0..MaxDelta}
UnreadCounts == {0, 1, 9, 10}
ReadmeLengths == {0, 199, 200, 5000, 5001}

RepoTrees ==
    {Tree(a, sz, b, l, Readme(n, PlainDescription)) :
        a \in ContentCounts, sz \in ContentSizes, b \in UnreadCounts,
        l \in 1..MaxLangs, n \in ReadmeLengths}

ClassifyNext ==
    \/ AppParse(ClassifyUrls, BranchReplies)
    \/ AppFetch(RepoTrees)
    \/ AppAnalyze

SpecClassify == Init /\ [][ClassifyNext]_vars

----------------------------------------------------------------------------
\* Properties of the classifier (_assess_repository_complexity).

\* analyze_repository has run on a repository with something to analyze.
AnalyzedState == pc = "script" /\ ret

\* The generator with another total of collected characters, its files the same.
WithCodeChars(self, c) == [self EXCEPT !.total_code_chars_collected = c]

\* The larger totals the files of self can hold.
LargerCodeChars(self) ==
    {c \in {a * Min(sz, max_chars_per_file_read) : a \in ContentCounts, sz \in ContentSizes} :
        /\ c > self.total_code_chars_collected
        /\ c <= Len(self.code_files) * max_chars_per_file_read}

\* C2 as stated: with file count, language count and README length equal, a
\* larger count of code characters never gives a smaller score.
ScoreMonotoneInCodeChars ==
    AnalyzedState =>
        \A c \in LargerCodeChars(Self) :
            ScoreLeq(ComplexityScore(Self), ComplexityScore(WithCodeChars(Self, c)))

\* The README penalty of line 517 starts to apply between the two totals.
PenaltyStarts(self, c) ==
    /\ self.readme_content.chars < 200
    /\ self.total_code_chars_collected <= 10000
    /\ c > 10000

\* C2, amended: with file count, language count and README length equal, a
\* larger count of code characters never gives a smaller score, except that the
\* score may fall by at most 0.5 when the README is shorter than 200 characters
\* and the count goes from at most 10000 to more than 10000.
ScoreMonotoneInCodeCharsUpToPenalty ==
    AnalyzedState =>
        \A c \in LargerCodeChars(Self) :
            LET first == ComplexityScore(Self)
                second == ComplexityScore(WithCodeChars(Self, c))
            IN  IF PenaltyStarts(Self, c)
                THEN ScoreLeq(first, ScorePlusHalves(second, 1))
                ELSE ScoreLeq(first, second)

\* A short README, exactly 10000 characters of code, and a larger total that
\* scores lower.
PenaltyLowersScore ==
    /\ AnalyzedState
    /\ readme_content.chars < 200
    /\ total_code_chars_collected = 10000
    /\ \E c \in LargerCodeChars(Self) :
          ScoreLess(ComplexityScore(WithCodeChars(Self, c)), ComplexityScore(Self))

\* self analyzed again after a change of its files.
Reanalyzed(self) == [self EXCEPT !.repo_summary = AnalyzedSummary(self)]

\* n more files of the language of the first file, their content not read.
WithMoreFiles(self, n) ==
    Reanalyzed([self EXCEPT !.code_files =
        @ \o [i \in 1..n |-> [extension |-> self.code_files[1].extension, content |-> None]]])

\* The first extension of code_extensions whose language self does not have.
FreshExtension(self) ==
    LET fresh == {k \in 1..Len(code_extensions) :
                    LanguageCount(self.code_files, Language(code_extensions[k])) = 0}
    IN  code_extensions[CHOOSE k \in fresh : \A j \in fresh : k <= j]

\* The files that are not the only one of their language.
Retaggable(self) ==
    {i \in 1..Len(self.code_files) :
        LanguageCount(self.code_files, Language(self.code_files[i].extension)) >= 2}

\* File i written in a language self does not have yet: one language more,
\* the number of files and their characters the same.
WithOneMoreLanguage(self, i) ==
    Reanalyzed([self EXCEPT !.code_files[i].extension = FreshExtension(self)])

ExtraFiles == {1, 2, 10}

\* C3: with the other three metrics equal, a larger file count never gives a
\* smaller score, and a larger language count never gives a smaller score.
ScoreMonotoneInFilesAndLanguages ==
    AnalyzedState =>
        /\ code_files # <<>> =>
              \A n \in ExtraFiles :
                  /\ NumLangs(WithMoreFiles(Self, n)) = NumLangs(Self)
                  /\ ScoreLeq(ComplexityScore(Self), ComplexityScore(WithMoreFiles(Self, n)))
        /\ \A i \in Retaggable(Self) :
              /\ NumLangs(WithOneMoreLanguage(Self, i)) = NumLangs(Self) + 1
              /\ ScoreLeq(ComplexityScore(Self), ComplexityScore(WithOneMoreLanguage(Self, i)))

\* Ten files, so that one more passes the threshold of line 509, and a file
\* whose language can change.
TenFilesAnalyzed ==
    /\ AnalyzedState
    /\ Len(code_files) = 10
    /\ Retaggable(Self) # {}
    /\ \E n \in ExtraFiles :
          ScoreLess(ComplexityScore(Self), ComplexityScore(WithMoreFiles(Self, n)))

\* C4: a score of exactly 4.0 and a score of exactly 9.0 are both 'medium',
\* every score below 4.0 is 'simple' and every score above 9.0 is 'complex';
\* each analyzed repository has exactly one level.
ThresholdBoundaries ==
    AnalyzedState =>
        LET score == ComplexityScore(Self)
        IN  /\ complexity_level \in Levels
            /\ ScoreEq(score, ScoreOfHalves(8)) => complexity_level = "medium"
            /\ ScoreEq(score, ScoreOfHalves(18)) => complexity_level = "medium"
            /\ ScoreLess(score, ScoreOfHalves(8)) <=> complexity_level = "simple"
            /\ ScoreLess(ScoreOfHalves(18), score) <=> complexity_level = "complex"

\* A repository that scores exactly 4.0.
ScoresExactlyFour ==
    /\ AnalyzedState
    /\ ScoreEq(ComplexityScore(Self), ScoreOfHalves(8))
    /\ complexity_level = "medium"

Reverse(seq) == [i \in 1..Len(seq) |-> seq[Len(seq) + 1 - i]]

\* Generators with the four metrics of self and another previous level,
\* repository identity, branch, title and order of files.
SameMetrics(self) ==
    {[self EXCEPT !.complexity_level = level, !.repo_owner = owner, !.branch = b,
                  !.repo_summary.title = <<owner>>, !.code_files = files] :
        level \in Levels, owner \in {"alice", "bob"}, b \in {"main", "dev"},
        files \in {self.code_files, Reverse(self.code_files)}}

\* C5: the level depends on the four metrics only: every generator with the
\* metrics of the analyzed one gets the level the analysis set, whatever its
\* previous level, repository identity and history.
ClassifierDeterministic ==
    AnalyzedState =>
        \A other \in SameMetrics(Self) :
            _assess_repository_complexity(other) = complexity_level

\* An analysis that moved the level away from its initial 'medium'.
LevelMovedByAnalysis ==
    /\ AnalyzedState
    /\ complexity_level = "complex"
    /\ \E other \in SameMetrics(Self) : other.complexity_level = "simple"

----------------------------------------------------------------------------
\* Properties of script generation, under SpecApp.

\* A step of the run that calls generate_podcast_script and reaches the
\* selection of the prompt.
PromptSelected == pc = "script" /\ pc' # "script" /\ log_prefix' # NoName

\* C1: the detailed prompt is selected exactly when complexity_level is
\* 'complex', the concise one for 'simple' and 'medium', and the call that
\* selects the prompt leaves every field of the generator as it was.
PromptFollowsComplexity ==
    [][PromptSelected =>
          /\ log_prefix' = "DETALHADO" <=> complexity_level = "complex"
          /\ log_prefix' = "CONCISO" <=> complexity_level \in {"simple", "medium"}
          /\ UNCHANGED gen_vars]_vars

\* The detailed prompt was selected for a complex repository.
DetailedPromptSelected ==
    /\ pc = "audio"
    /\ log_prefix = "DETALHADO"
    /\ complexity_level = "complex"

\* generate_podcast_script has been called.
ScriptCalled == pc \notin {"parse", "fetch", "analyze", "script", "stopped_at_parse",
                           "stopped_at_fetch"}

\* C6: every call of generate_podcast_script that does not return the
\* model's script returns the fallback stub, a non-empty text; no failure is
\* raised to the caller and none yields an empty script.
FallbackOnEveryFailure ==
    ScriptCalled =>
        /\ script_source \in {"model", "stub"}
        /\ podcast_script # <<>>

\* C7: a failure of script generation does not stop the run: with the stub as
\* the script, the run goes on to the audio stage.
FallbackReachesAudio ==
    ScriptCalled /\ script_source = "stub" => pc # "stopped_at_script"

----------------------------------------------------------------------------
\* Properties of segmentation, under SpecAudio.

\* generate_podcast_audio has split the script.
ScriptSplit == pc \in {"audio_parts", "done", "stopped_at_audio"}

OpeningCue == <<"[", "VINHETA", " ", "DE", " ", "ABERTURA", "]">>
TransitionCue == <<"[", "VINHETA", " ", "DE", " ", "TRANSIÇÃO", "]">>
ClosingCue == <<"[", "VINHETA", " ", "DE", " ", "ENCERRAMENTO", "]">>

IsCue(part) == part \in vignette_markers

\* The part is a Narration: its text goes to speech synthesis.
IsNarration(part) == PartStep(part, vignette).do = "speak"

\* C8: the parts of the stub that are cue markers are the opening, the
\* transition and the closing marker in that order, at least one part is a
\* Narration, and no part after the closing marker, where the footer
\* starting with '---' stands, is a Narration.
StubSegments ==
    ScriptSplit /\ script_source = "stub" =>
        /\ SelectSeq(parts, IsCue) = <<OpeningCue, TransitionCue, ClosingCue>>
        /\ \E i \in 1..Len(parts) : IsNarration(parts[i])
        /\ \A i \in 1..Len(parts) :
              i > Last(parts, LAMBDA k : parts[k] = ClosingCue) => ~IsNarration(parts[i])

SpokenLiteral == <<"Olá", " ", "mundo", "!">>

\* C9: the literal script splits into exactly three parts, a cue marker, a
\* Narration and a cue marker, and the one text sent to speech synthesis, when
\* the second part is processed, is "Olá mundo!".
LiteralSegments ==
    ScriptSplit /\ podcast_script = LiteralScript =>
        /\ Len(parts) = 3
        /\ IsCue(parts[1]) /\ IsNarration(parts[2]) /\ IsCue(parts[3])
        /\ PartStep(parts[2], vignette).text = SpokenLiteral
        /\ tts_requests = IF processed_parts >= 2 THEN <<SpokenLiteral>> ELSE <<>>

\* The literal script turned into vignette, speech, pause and vignette.
LiteralSpoken ==
    /\ pc = "done"
    /\ podcast_script = LiteralScript
    /\ tts_requests = <<SpokenLiteral>>
    /\ final_segments = <<VignetteClip, SpeechClip(SpokenLiteral), SilenceClip, VignetteClip>>

\* The bracketed tokens of s that are no cue markers: a "[" at position i
\* and the next "]" at position j.
UnknownTokens(s) ==
    LET TokenEnd(i) == First(s, i + 1, LAMBDA k : s[k] = "]")
    IN  {tok \in {<<i, TokenEnd(i)>> : i \in {k \in 1..Len(s) : s[k] = "["}} :
            tok[2] # 0 /\ SubSeq(s, tok[1], tok[2]) \notin vignette_markers}

OnOneLine(s, tok) == \A k \in tok[1]..tok[2] : s[k] # "\n"

\* The words between the brackets of a token.
InnerWords(s, tok) ==
    {s[k] : k \in (tok[1] + 1)..(tok[2] - 1)} \ (Blanks \cup {"\n", "["})

SpokenSymbols ==
    UNION {{tts_requests[r][k] : k \in 1..Len(tts_requests[r])} :
              r \in 1..Len(tts_requests)}

\* No clip but the vignette of each cue marker processed and the speech of
\* each text sent to speech synthesis.
ClipsOnlyForCuesAndSpeech ==
    /\ Len(SelectSeq(final_segments, LAMBDA clip : clip.kind = "vignette"))
           = IF vignette
             THEN Len(SelectSeq(SubSeq(parts, 1, processed_parts), IsCue))
             ELSE 0
    /\ \A c \in 1..Len(final_segments) :
          final_segments[c].kind = "speech" =>
              \E r \in 1..Len(tts_requests) : tts_requests[r] = final_segments[c].text

Dropped(tok) == InnerWords(podcast_script, tok) \cap SpokenSymbols = {}

----------------------------------------------------------------------------
\* Properties of the cleaning of narration, under SpecAudio.

\* The cleaning of lines 936-962 applied to a piece of narration.
Sanitized(piece) == TextToSpeak(UsefulText(piece))

\* C11: the cleaning applied to a text it produced returns that text: every
\* text sent to speech synthesis is left unchanged by the cleaning.
SanitizationIdempotent ==
    \A r \in 1..Len(tts_requests) : Sanitized(tts_requests[r]) = tts_requests[r]

\* The hyperlinks [label](url) of the script: the positions of the label and
\* of the url.
Hyperlinks(s) ==
    {[label |-> (LinkAt(s, i).from)..(LinkAt(s, i).to),
      url |-> (LinkAt(s, i).to + 3)..(LinkAt(s, i).next - 2)] :
        i \in {k \in 1..Len(s) : LinkAt(s, k).next # 0}}

WordsAt(s, positions) == {s[k] : k \in positions} \ Blanks

\* C12: once the parts of a script with a hyperlink are processed, the texts
\* sent to speech synthesis hold the label and hold neither the url nor a
\* bracket or a parenthesis.
HyperlinksCollapsed ==
    /\ ScriptSplit
    /\ processed_parts = Len(parts)
    /\ Hyperlinks(podcast_script) # {}
    => /\ \A link \in Hyperlinks(podcast_script) :
             /\ WordsAt(podcast_script, link.label) \subseteq SpokenSymbols
             /\ WordsAt(podcast_script, link.url) \cap SpokenSymbols = {}
       /\ SpokenSymbols \cap {"[", "]", "(", ")"} = {}

----------------------------------------------------------------------------
\* Properties of the assembly of the audio, under SpecAudio.

\* The script has no cue marker and no narration: each of its parts is a
\* bracketed token or is cleaned to nothing.
NothingToSay(s) ==
    LET pieces == Parts(s)
    IN  \A i \in 1..Len(pieces) :
            LET part == pieces[i]
            IN  \/ part \notin vignette_markers /\ part[1] = "[" /\ part[Len(part)] = "]"
                \/ Sanitized(part) = <<>>

\* generate_podcast_audio has returned.
AudioReturned == pc \in {"done", "stopped_at_audio"}

\* C13: for a script with nothing to say no text is ever sent to speech
\* synthesis, no clip is made, and generate_podcast_audio returns None.
EmptyScriptFails ==
    NothingToSay(podcast_script) =>
        /\ tts_requests = <<>>
        /\ final_segments = <<>>
        /\ pc # "done"
        /\ AudioReturned => podcast_audio_bytes = "None"

\* The loop went over a piece that is cleaned to nothing, and None was returned.
EmptyPieceSkipped ==
    /\ podcast_script = <<"*", "*">>
    /\ processed_parts = 1
    /\ pc = "stopped_at_audio"
    /\ podcast_audio_bytes = "None"

\* The clip at position c of final_segments is the clip of its part.
ClipOfItsPart(c) ==
    LET clip == final_segments[c]
        part == parts[clip_parts[c]]
    IN  /\ clip_parts[c] \in 1..processed_parts
        /\ clip.kind = "vignette" => IsCue(part)
        /\ clip.kind = "speech" =>
              PartStep(part, vignette) = [do |-> "speak", text |-> clip.text]
        /\ clip.kind = "silence" =>
              /\ c > 1
              /\ final_segments[c - 1].kind = "speech"
              /\ clip_parts[c - 1] = clip_parts[c]

\* C14: at every point of the loop the clips collected are clips of the parts
\* processed, in the order of their parts, and the track exported has the
\* clips in that order.
OrderPreserved ==
    /\ Len(clip_parts) = Len(final_segments)
    /\ \A c \in 1..Len(final_segments) : ClipOfItsPart(c)
    /\ \A c, d \in 1..Len(final_segments) : c < d => clip_parts[c] <= clip_parts[d]
    /\ pc = "done" =>
          /\ Len(combined_audio) = Len(final_segments)
          /\ \A c \in 1..Len(final_segments) : combined_audio[c].part = clip_parts[c]

\* The three blocks between four vignettes, exported.
ThreeBlocksExported ==
    /\ pc = "done"
    /\ podcast_script = ThreeBlockScript
    /\ clip_parts = <<1, 2, 2, 3, 4, 4, 5, 6, 6, 7>>

\* The indexes of the parts that are narrations, in script order.
NarrationParts ==
    SelectSeq([p \in 1..Len(parts) |-> p], LAMBDA p : IsNarration(parts[p]))

\* The clips of speech collected, in the order of final_segments.
SpeechCollected == SelectSeq(final_segments, LAMBDA clip : clip.kind = "speech")

\* The loop is over for the script of three narrations, and synthesis or
\* decoding failed for the second one only.
SecondOfThreeFailed ==
    /\ pc \in {"audio_parts", "done", "stopped_at_audio"}
    /\ processed_parts = Len(parts)
    /\ podcast_script = ThreeBlockScript
    /\ Len(tts_outcomes) = 3
    /\ tts_outcomes[1] = "ok"
    /\ tts_outcomes[2] \in {"gtts_error", "pydub_error"}
    /\ tts_outcomes[3] = "ok"

\* C15: when synthesis or decoding fails for the second of three narrations,
\* the third is still synthesized, and the clips collected are not empty and
\* hold the speech of the first and of the third narration in that order and
\* no clip of the part of the second; the track exported has the same.
SkipAndContinue ==
    SecondOfThreeFailed =>
        /\ Len(NarrationParts) = 3
        /\ Len(tts_requests) = 3
        /\ final_segments # <<>>
        /\ SpeechCollected = <<SpeechClip(tts_requests[1]), SpeechClip(tts_requests[3])>>
        /\ \A c \in 1..Len(clip_parts) : clip_parts[c] # NarrationParts[2]
        /\ \E c, d \in 1..Len(clip_parts) :
              /\ c < d
              /\ final_segments[c].kind = "speech" /\ clip_parts[c] = NarrationParts[1]
              /\ final_segments[d].kind = "speech" /\ clip_parts[d] = NarrationParts[3]
        /\ pc = "done" =>
              /\ \A c \in 1..Len(combined_audio) : combined_audio[c].part # NarrationParts[2]
              /\ \E c, d \in 1..Len(combined_audio) :
                    /\ c < d
                    /\ combined_audio[c].sound /\ combined_audio[c].part = NarrationParts[1]
                    /\ combined_audio[d].sound /\ combined_audio[d].part = NarrationParts[3]

\* The second narration failed and the audio was exported without the vignette.
SecondSkippedExported ==
    /\ SecondOfThreeFailed
    /\ pc = "done"
    /\ ~vignette
    /\ clip_parts = <<2, 2, 6, 6>>

\* C16: when the call returns after a loop that collected no clip, it returns
\* None and no track; and a track returned is never empty nor of zero length.
NoAudioIsFailure ==
    AudioReturned =>
        /\ final_segments = <<>> =>
              /\ podcast_audio_bytes = "None"
              /\ combined_audio = <<>>
              /\ pc = "stopped_at_audio"
        /\ podcast_audio_bytes = "mp3" =>
              /\ combined_audio # <<>>
              /\ \E c \in 1..Len(combined_audio) : combined_audio[c].ms > 0

\* Every narration of a script with narrations failed, the vignette was not
\* loaded, and the call returned.
EverySynthesisFailed ==
    /\ AudioReturned
    /\ tts_requests # <<>>
    /\ Contains(podcast_script, OpeningCue)
    /\ ~vignette
    /\ final_segments = <<>>

RECURSIVE SumMs(_)
\* The sum of a sequence of durations.
SumMs(durations) ==
    IF durations = <<>> THEN 0 ELSE Head(durations) + SumMs(Tail(durations))

\* len(combined_audio), in milliseconds.
TrackMs(track) == SumMs([c \in 1..Len(track) |-> track[c].ms])

\* Two narrations around one cue, both synthesized, the vignette loaded, and
\* the audio exported.
TwoNarrationsOneCue ==
    /\ pc = "done"
    /\ podcast_script = OneCueScript
    /\ vignette
    /\ tts_outcomes = <<"ok", "ok">>

\* C17: for two narrations and one cue the track lasts the two clips of
\* speech, the vignette and two pauses of 300 ms, less what is cut from the
\* silence at the very end; every stretch before the last keeps its duration.
AssemblyDuration ==
    TwoNarrationsOneCue =>
        /\ final_segments = <<SpeechClip(tts_requests[1]), SilenceClip, VignetteClip,
                              SpeechClip(tts_requests[2]), SilenceClip>>
        /\ \A c \in 1..(Len(combined_audio) - 1) : combined_audio[c].ms = clip_ms[c]
        /\ combined_audio[Len(combined_audio)].ms <= silent_duration
        /\ TrackMs(combined_audio) =
              clip_ms[1] + clip_ms[4] + clip_ms[3] + 2 * silent_duration
                 - (silent_duration - combined_audio[Len(combined_audio)].ms)

\* A cue marker is in a text sent to speech synthesis.
CueSpoken ==
    \E r \in 1..Len(tts_requests) :
        \/ Contains(tts_requests[r], OpeningCue)
        \/ Contains(tts_requests[r], TransitionCue)
        \/ Contains(tts_requests[r], ClosingCue)

\* C18: when the vignette file is absent, or loading, slicing or fading it
\* raised, the loop runs, no clip of the vignette is collected in that call
\* and no cue marker is sent to speech synthesis.
DegradedWithoutCue ==
    vignette_load \in {"absent", "decode_error", "fade_error"} =>
        /\ pc # "crashed"
        /\ ScriptSplit =>
              /\ \A c \in 1..Len(final_segments) : final_segments[c].kind # "vignette"
              /\ ~CueSpoken

\* C19: in a run of the application the values passed to the progress
\* callback never decrease, and each is between 0 and 1.
ProgressMonotone ==
    /\ \A i \in 1..Len(progress) :
          FracLeq(Frac(0, 1), progress[i]) /\ FracLeq(progress[i], Frac(1, 1))
    /\ \A i \in 1..(Len(progress) - 1) : FracLeq(progress[i], progress[i + 1])

\* The stretches of the track that are the speech of the narration of part p.
SpeechOf(p) ==
    {c \in 1..Len(combined_audio) :
        /\ combined_audio[c].part = p
        /\ combined_audio[c].sound
        /\ combined_audio[c].ms \in SpeechDurations}

\* C20 as stated: when audio is returned, every narration of the script has
\* its speech in the track.
NoNarrationMissing ==
    podcast_audio_bytes = "mp3" =>
        LET narrations == NarrationParts
        IN  \A r \in 1..Len(narrations) : SpeechOf(narrations[r]) # {}

\* C20, amended: when audio is returned, the track has the clip of speech,
\* once, of exactly the narrations whose synthesis and decoding succeeded, in
\* script order; the narrations that failed are left out; a call that
\* collected no clip, or whose export failed, returns None and stops the run.
NoSynthesizedNarrationMissing ==
    /\ podcast_audio_bytes = "mp3" =>
          LET narrations == NarrationParts
              speech == [r \in 1..Len(narrations) |-> SpeechOf(narrations[r])]
          IN  /\ pc = "done"
              /\ Len(tts_outcomes) = Len(narrations)
              /\ \A r \in 1..Len(tts_outcomes) :
                    IF tts_outcomes[r] = "ok"
                    THEN Cardinality(speech[r]) = 1
                    ELSE \A c \in 1..Len(combined_audio) :
                            combined_audio[c].part # narrations[r]
              /\ \A r, q \in 1..Len(tts_outcomes) :
                    r < q /\ tts_outcomes[r] = "ok" /\ tts_outcomes[q] = "ok" =>
                       \A c \in speech[r], d \in speech[q] : c < d
    /\ AudioReturned /\ podcast_audio_bytes # "mp3" =>
          /\ podcast_audio_bytes = "None"
          /\ pc = "stopped_at_audio"
          /\ combined_audio = <<>>
    /\ AudioReturned /\ final_segments = <<>> => podcast_audio_bytes = "None"

\* Audio returned for two narrations of which only the second was synthesized.
NarrationLeftOutOfAudio ==
    /\ pc = "done"
    /\ podcast_script = OneCueScript
    /\ tts_outcomes = <<"gtts_error", "ok">>
    /\ podcast_audio_bytes = "mp3"

\* The run has ended in failure at the collection.
StoppedAtCollection == pc \in {"stopped_at_parse", "stopped_at_fetch"}

\* generate_podcast_script or generate_podcast_audio has been called.
LaterStageStarted ==
    \/ script_source # NoName
    \/ pc \in {"audio", "audio_parts", "done", "stopped_at_script", "stopped_at_audio",
               "crashed"}

\* C21 as stated: once a request of the collection has failed, the run has
\* ended in failure and no later stage is started.
CollectionErrorsFatal ==
    collection_errors # {} => StoppedAtCollection /\ ~LaterStageStarted

\* C21, amended: a failed tree request ends the run in failure before the
\* script and the audio; a failed default-branch request leaves the branch
\* "main" and the run goes on to the tree request; a failed blob request
\* leaves that file without content and fetch_repo_structure still succeeds.
TreeErrorsFatal ==
    /\ "tree" \in collection_errors =>
          /\ pc = "stopped_at_fetch"
          /\ ~ret
          /\ ~LaterStageStarted
          /\ code_files = <<>> /\ readme_content = EmptyReadme
    /\ "branch" \in collection_errors =>
          /\ branch = "main"
          /\ pc # "stopped_at_parse"
          /\ pc = "fetch" => ret
    /\ "blob" \in collection_errors =>
          /\ "tree" \notin collection_errors
          /\ pc # "stopped_at_fetch"
          /\ pc = "analyze" => ret
    /\ pc = "stopped_at_fetch" => "tree" \in collection_errors

\* A run that went on to the audio after a failed default-branch request and
\* failed blob requests.
RunWentOnAfterErrors ==
    /\ collection_errors = {"branch", "blob"}
    /\ pc = "done"

\* The tree request failed and the run stopped.
TreeRequestFailed == "tree" \in collection_errors /\ pc = "stopped_at_fetch"

\* C22 as stated: a call of generate_podcast_audio that returns None has
\* collected no clip, and a call that returns audio went through the loop.
FailureOnlyWithoutClips ==
    /\ podcast_audio_bytes = "None" => final_segments = <<>>
    /\ podcast_audio_bytes = "mp3" => processed_parts = Len(parts) /\ parts # <<>>

\* C22, amended: a call that returns audio has taken every part in the loop,
\* collected a clip, concatenated the clips in order and trimmed the silence
\* before encoding; a call returns None when the script has no parts, when
\* no clip was collected, or when combining, trimming or encoding raised, and
\* then no track is returned.
AssemblyStateMachine ==
    /\ pc = "audio_parts" => parts # <<>> /\ podcast_audio_bytes = NoName
    /\ pc = "done" =>
          /\ podcast_audio_bytes = "mp3"
          /\ parts # <<>> /\ processed_parts = Len(parts)
          /\ final_segments # <<>>
          /\ Len(combined_audio) = Len(final_segments)
          /\ \A c \in 1..Len(combined_audio) :
                /\ combined_audio[c].part = clip_parts[c]
                /\ combined_audio[c].sound = (final_segments[c].kind # "silence")
                /\ combined_audio[c].sound => combined_audio[c].ms = clip_ms[c]
                /\ ~combined_audio[c].sound =>
                      combined_audio[c].ms < clip_ms[c]
                      /\ (c = Len(combined_audio) => combined_audio[c].ms <= padding)
    /\ pc = "stopped_at_audio" =>
          /\ podcast_audio_bytes = "None"
          /\ combined_audio = <<>>
          /\ parts = <<>> \/ processed_parts = Len(parts)
    /\ AudioReturned /\ final_segments = <<>> => pc = "stopped_at_audio"

\* Clips were collected and the call returned None: the export raised.
FailedWithClips ==
    /\ pc = "stopped_at_audio"
    /\ final_segments # <<>>
    /\ podcast_audio_bytes = "None"

SilenceGapPlacement ==
    /\ \A c \in 1..Len(final_segments) :
          /\ final_segments[c].kind = "speech" =>
                /\ c < Len(final_segments)
                /\ final_segments[c + 1] = SilenceClip
                /\ clip_ms[c + 1] = silent_duration
                /\ clip_parts[c + 1] = clip_parts[c]
                /\ c + 2 <= Len(final_segments) => final_segments[c + 2].kind # "silence"
          /\ final_segments[c].kind = "silence" =>
                /\ c > 1
                /\ final_segments[c - 1].kind = "speech"
    /\ Cardinality({c \in 1..Len(final_segments) : final_segments[c].kind = "silence"})
          = Cardinality({r \in 1..Len(tts_outcomes) : tts_outcomes[r] = "ok"})

\* The loop is over for the script of three blocks with the vignette loaded,
\* the second narration having failed: pauses after the first and the third.
PausesAfterSpeechOnly ==
    /\ SecondOfThreeFailed
    /\ vignette
    /\ [c \in 1..Len(final_segments) |-> final_segments[c].kind] =
          <<"vignette", "speech", "silence", "vignette", "vignette", "speech", "silence",
            "vignette">>

\* The part is a piece of text, not a bracketed marker.
IsPiece(part) ==
    /\ part \notin vignette_markers
    /\ part \notin markers_to_remove
    /\ ~(part[1] = "[" /\ part[Len(part)] = "]")

\* C25: in every iteration of the loop, a piece of text that the cleaning
\* leaves empty, at the cut of the footer or after the substitutions, gets
\* no synthesis call and no clip, of speech or of silence; any other piece
\* gets one call, with its cleaned text, which is non-empty and has no blank
\* at either end; a marker gets no call.
EmptyNeverSynthesized ==
    [][processed_parts' = processed_parts + 1 =>
          LET part == parts[processed_parts']
              text == Sanitized(part)
          IN  IF IsPiece(part) /\ text # <<>>
              THEN /\ tts_requests' = Append(tts_requests, text)
                   /\ text[1] \notin Blanks \cup {"\n"}
                   /\ text[Len(text)] \notin Blanks \cup {"\n"}
              ELSE /\ tts_requests' = tts_requests
                   /\ IsPiece(part) =>
                         /\ final_segments' = final_segments
                         /\ clip_parts' = clip_parts
                         /\ clip_ms' = clip_ms]_vars

\* The loop is over for the script with four emptied pieces: one call, one
\* clip of speech and its pause.
EmptiedPiecesSkipped ==
    /\ podcast_script = EmptiedPiecesScript
    /\ processed_parts = Len(parts)
    /\ Len(parts) = 9
    /\ Len(tts_requests) = 1
    /\ tts_outcomes = <<"ok">>
    /\ clip_parts = <<1, 1>>

\* C26: of a script the service wrote, with the footer of lines 664-670
\* appended, no text sent to speech synthesis holds the "---" rule or a line
\* of the metadata (script kind, repository URL, estimated complexity).
FooterNeverSpoken ==
    script_source = "model" =>
        \A r \in 1..Len(tts_requests) :
            /\ ~Contains(tts_requests[r], <<"-", "-", "-">>)
            /\ ~Contains(tts_requests[r], <<"gerado", " ", "por", " ", "Explica">>)
            /\ ~Contains(tts_requests[r], <<"Repositório", " ", "analisado">>)
            /\ ~Contains(tts_requests[r], <<"Complexidade", " ", "estimada">>)

----------------------------------------------------------------------------
\* Properties of the generator under any order of calls.

\* The level _assess_repository_complexity gives the data collected now.
CurrentLevel(self) == _assess_repository_complexity(Reanalyzed(self))

\* C27: the level generate_podcast_script chooses its prompt with is the
\* classification of the data collected at the time of the call, never one
\* computed from data collected earlier.
LevelNeverStale ==
    pc = "generate_podcast_script" /\ log_prefix # NoName =>
        /\ complexity_level = CurrentLevel(Self)
        /\ log_prefix = SelectPrompt([Self EXCEPT !.complexity_level = CurrentLevel(Self)])

----------------------------------------------------------------------------
\* Order of the stages of the run of app.py.

\* The run has ended before its last stage.
StoppedRun ==
    pc \in {"stopped_at_parse", "stopped_at_fetch", "stopped_at_script",
            "stopped_at_audio", "crashed"}

\* The script generate_podcast_script returned is one app.py line 130 accepts.
ScriptAccepted(script) == script # <<>> /\ ~Contains(script, <<"Erro", ":">>)

\* C28: the fetch starts only after parse_github_url returned True, the script
\* generation only after the fetch returned True and the analysis returned,
\* the audio generation only after a script was returned and accepted; after
\* a failed stage nothing more runs, and every step belongs to the one stage
\* the run is in.
StrictlySequential ==
    [][/\ ~StoppedRun /\ pc # "done"
       /\ pc' = "fetch" => pc = "parse" /\ ret'
       /\ pc' = "analyze" => pc = "fetch" /\ ret'
       /\ pc' = "script" => pc = "analyze"
       /\ pc' = "audio" =>
             pc = "script" /\ script_source' # "raised" /\ ScriptAccepted(podcast_script')
       /\ pc' \in {"audio_parts", "done", "stopped_at_audio"} =>
             pc \in {"audio", "audio_parts"}
       /\ pc \in {"parse", "fetch"} /\ ~ret' => StoppedRun'
       /\ pc = "script" /\ ~ScriptAccepted(podcast_script') => StoppedRun'
       /\ pc = "audio_parts" /\ pc' # pc => pc' = IF podcast_audio_bytes' = "mp3"
                                                   THEN "done" ELSE "stopped_at_audio"
       /\ pc \in {"parse", "fetch", "analyze"} => UNCHANGED <<script_vars, audio_vars>>
       /\ pc = "script" => UNCHANGED <<code_files, readme_content,
                                       total_code_chars_collected, audio_vars>>
       /\ pc \in {"audio", "audio_parts"} => UNCHANGED <<gen_vars, script_vars>>]_vars

\* A run stopped by a rejected script: the collection and the analysis have
\* happened, the audio generation has not started.
RunStoppedAtScript ==
    /\ pc = "stopped_at_script"
    /\ repo_owner # NoName
    /\ repo_summary # <<>>
    /\ script_source = "stub"
    /\ vignette_load = NoName
    /\ parts = <<>>

----------------------------------------------------------------------------
\* Properties of the collection.

\* len(content) of an entry of code_files, 0 for an entry without content.
StoredChars(file) == IF file.content = None THEN 0 ELSE file.content

\* The characters stored in the entries lo..hi of files.
RECURSIVE SumContents(_, _, _)
SumContents(files, lo, hi) ==
    IF lo > hi THEN 0
    ELSE IF lo = hi THEN StoredChars(files[lo])
    ELSE LET mid == (lo + hi) \div 2
         IN  SumContents(files, lo, mid) + SumContents(files, mid + 1, hi)

\* The entries of files that hold a content.
WithContent(files) == {i \in 1..Len(files) : files[i].content # None}

\* The blobs among the first n of items that are no README and have an
\* extension of code_extensions.
CodeBlobs(items, n) ==
    SelectSeq(SubSeq(items, 1, n),
              LAMBDA item : item.kind # "readme" /\ InCodeExtensions(item.extension))

LimitsReached ==
    /\ pc = "fetch_returned" /\ ret
    /\ files_content_read_count = max_files_to_read_content
    /\ Len(code_files) > max_files_to_read_content
    /\ code_files[1].content = max_chars_per_file_read
    /\ readme_content.chars = max_chars_per_file_read
    /\ code_files[Len(code_files)].content = None
    /\ total_code_chars_collected > max_chars_per_file_read

----------------------------------------------------------------------------
\* Properties of parse_github_url.

\* The ValueError of lines 129-133.
NoRepositoryUrl(url) == ~IsGithub(url.netloc) \/ Len(url.path_parts) < 2

\* C30: a parse_github_url that returns True leaves code_files,
\* readme_content and repo_summary empty, total_code_chars_collected 0 and
\* complexity_level 'medium'; one that fails because the URL is no GitHub URL
\* or has fewer than two path parts returns False and leaves the repository
\* identity and the collected data as they were.
ParseResetsOrLeaves ==
    [][\A url \in CallUrls, reply \in BranchReplies :
          pc' = "parse_github_url" /\ parse_github_url(url, reply) =>
              /\ ret' =>
                    /\ code_files' = <<>>
                    /\ readme_content' = EmptyReadme
                    /\ repo_summary' = <<>>
                    /\ total_code_chars_collected' = 0
                    /\ complexity_level' = "medium"
              /\ NoRepositoryUrl(url) =>
                    /\ ~ret'
                    /\ UNCHANGED <<repo_owner, repo_name, repo_url, branch, code_files,
                                   readme_content, repo_summary, complexity_level,
                                   total_code_chars_collected>>]_vars

\* A parse_github_url that failed on a generator holding the analyzed data of
\* a repository: the data are still there.
FailedParseKeptData ==
    /\ pc = "parse_github_url" /\ ~ret
    /\ repo_owner = "alice"
    /\ code_files # <<>>
    /\ repo_summary # <<>>
    /\ complexity_level = "complex"

====
